---- MODULE Spec2Model ----
(***************************************************************************)
(* State-machine model of the cncjs tactical core:                         *)
(*   - the map entity life cycle (construction, footprint registration,    *)
(*     damage, death, removal) of src/game/entity.ts,                      *)
(*     src/game/entities/mapentity.ts and src/game/entities/infantry.ts,   *)
(*   - the per-tick entity state machine (mapentity.ts tick),              *)
(*   - the click handling of the theatre UI (unnamed/part_000),            *)
(*   - the occupancy grids of src/game/map.js (base / current / previous). *)
(*                                                                         *)
(* Positions are held in fixed point, POS_UNIT units per pixel.  The       *)
(* turret, the weapon cooldowns and the sprite frames are not part of the  *)
(* state.                                                                  *)
(***************************************************************************)
EXTENDS Integers, Sequences, FiniteSets, TLC

VARIABLES
  ent,          \* entity id -> record of the entity object's fields
  walkable,     \* map.grid of mapentity.ts: cell -> BOOLEAN (walkable flag)
  entities,     \* the map's entity collection, in insertion order
  ret,          \* what the last operation returned / which operation it was
  ghost,        \* history: die() calls and deaths per entity, stamps of the tick
  snapshot,     \* history: the walkable grid as it was before each construction
  baseGrid,     \* Map.baseGrid of map.js
  grid,         \* Map.grid of map.js
  previousGrid, \* Map.previousGrid of map.js
  mapst         \* Map: loaded flag, position of the loop of update() (0 = not running),
                \* position of load()

vars == <<ent, walkable, entities, ret, ghost, snapshot, baseGrid, grid, previousGrid, mapst>>
gridVars == <<baseGrid, grid, previousGrid>>

----------------------------------------------------------------------------
(* Bounds of the model *)

NumEntities == 2      \* entity objects that can be constructed
TilesX == 3           \* map width in cells
TilesY == 1           \* map height in cells
MaxHealth == 2        \* HitPoints of the configured types; cap on health
MaxDamage == 2        \* largest takeDamage amount drawn

(* Program constants *)

CELL_SIZE == 24
SPEED_DIVIDER == 20

POS_UNIT == 10 * 10   \* fixed-point units per pixel

Ents == 1..NumEntities
NoEnt == 0
Cells == (0..(TilesX - 1)) \X (0..(TilesY - 1))
NoPos == <<-1, -1>>

Abs(n) == IF n < 0 THEN -n ELSE n
Max(a, b) == IF a > b THEN a ELSE b
Min(a, b) == IF a < b THEN a ELSE b

\* Math.floor(a / b) for b > 0 (TLA+ \div already rounds toward -infinity)
FloorDiv(a, b) == a \div b

----------------------------------------------------------------------------
(* physics.ts *)

pointFromCell(c) == <<c[1] * CELL_SIZE * POS_UNIT, c[2] * CELL_SIZE * POS_UNIT>>

\* cellFromPoint(new Vector(Math.floor(p.x), Math.floor(p.y)))
cellFromPoint(p) ==
  <<FloorDiv(FloorDiv(p[1], POS_UNIT), CELL_SIZE),
    FloorDiv(FloorDiv(p[2], POS_UNIT), CELL_SIZE)>>

\* getDirection(target, source, 8): 4 + Math.round(atan2(dx, dy) * 8 / (2 PI)),
\* wrapped into [0, 8).  The bucket borders lie at odd multiples of 22.5
\* degrees; |dx| < |dy| * tan(22.5) is decided exactly as
\* (|dx| + |dy|)^2 < 2 * dy^2 because tan(22.5 degrees) = sqrt(2) - 1.
getDirection(target, source) ==
  LET dx == target[1] - source[1]
      dy == target[2] - source[2]
      ax == Abs(dx)
      ay == Abs(dy)
      s2 == (ax + ay) * (ax + ay)
      k  == IF dx = 0 /\ dy = 0 THEN 0
            ELSE IF s2 < 2 * ay * ay THEN (IF dy > 0 THEN 0 ELSE 4)
            ELSE IF s2 < 2 * ax * ax THEN (IF dx > 0 THEN 2 ELSE -2)
            ELSE IF dx > 0 THEN (IF dy > 0 THEN 1 ELSE 3)
            ELSE (IF dy > 0 THEN -1 ELSE -3)
      angle == 4 + k
  IN  IF angle < 0 THEN angle + 8 ELSE IF angle >= 8 THEN angle - 8 ELSE angle

\* getDirection(target, source, 32): the bucket borders lie at odd multiples of
\* 5.625 degrees from the y axis.  TAN32[j] is tan((2j - 1) * 5.625 degrees)
\* times TAN_UNIT; the tangents are irrational, so for offsets of a few cells
\* the comparison with six digits decides as atan2 and Math.round do.
TAN_UNIT == 1000 * 1000
TAN32 == <<98491, 303347, 534511, 820679, 1218504, 1870868, 3296558, 10153170>>
TurretDirections == 32

getDirection32(target, source) ==
  LET dx == target[1] - source[1]
      dy == target[2] - source[2]
      m  == Cardinality({j \in 1..8 : Abs(dx) * TAN_UNIT > Abs(dy) * TAN32[j]})
      a  == IF dy >= 0 THEN m ELSE 16 - m          \* |atan2(dx, dy)| in buckets
      k  == IF dx < 0 THEN -a ELSE a
      angle == 16 + k
  IN  IF angle < 0 THEN angle + 32 ELSE IF angle >= 32 THEN angle - 32 ELSE angle

\* Directions are held in fixed point, DIR_UNIT units per bucket: a rotation
\* speed of n (getRotationSpeed() = n, or 4 n for a turret) turns by
\* n / TURNSPEED_DIVIDER / 10 buckets, that is by n units.
TURNSPEED_DIVIDER == 8
DIR_UNIT == TURNSPEED_DIVIDER * 10
DirectionCounts == {8, 32}

\* Math.round of a direction held in fixed point
RoundDirection(d) == (2 * d + DIR_UNIT) \div (2 * DIR_UNIT)

\* Variant of getNewDirection that does not wrap.
getNewDirectionUnwrapped(current, target, speed, dirs) ==
  IF \/ target * DIR_UNIT > current /\ 2 * (target * DIR_UNIT - current) < dirs * DIR_UNIT
     \/ target * DIR_UNIT < current /\ 2 * (current - target * DIR_UNIT) > dirs * DIR_UNIT
  THEN current + speed
  ELSE current - speed

\* Variant of getNewDirection that turns the long way round.
getNewDirectionReversed(current, target, speed, dirs) ==
  LET c1 == IF \/ target * DIR_UNIT > current /\ 2 * (target * DIR_UNIT - current) < dirs * DIR_UNIT
               \/ target * DIR_UNIT < current /\ 2 * (current - target * DIR_UNIT) > dirs * DIR_UNIT
            THEN current - speed
            ELSE current + speed
  IN  IF c1 > (dirs - 1) * DIR_UNIT THEN c1 - (dirs - 1) * DIR_UNIT
      ELSE IF c1 < 0 THEN c1 + (dirs - 1) * DIR_UNIT
      ELSE c1

\* getNewDirection(current, target, speed, dirs); speed is the numerator over
\* TURNSPEED_DIVIDER
getNewDirection(current, target, speed, dirs) ==
  LET c1 == IF \/ target * DIR_UNIT > current /\ 2 * (target * DIR_UNIT - current) < dirs * DIR_UNIT
               \/ target * DIR_UNIT < current /\ 2 * (current - target * DIR_UNIT) > dirs * DIR_UNIT
            THEN current + speed
            ELSE current - speed
  IN  IF c1 > (dirs - 1) * DIR_UNIT THEN c1 - (dirs - 1) * DIR_UNIT
      ELSE IF c1 < 0 THEN c1 + (dirs - 1) * DIR_UNIT
      ELSE c1

----------------------------------------------------------------------------
(* Configuration supplied by the rules data (MIX): illustrative values *)

\* kind "infantry" is an InfantryEntity, kind "plain" a GameMapEntity that
\* overrides nothing (it dies with destroy = true and is not selectable).
ScenePlayer == 0                 \* map.scene.player.getId()
WeaponRange == 1                 \* weapon.Range of the infantry's primary weapon
Speed == 12 * SPEED_DIVIDER      \* properties.Speed: 12 pixels per tick
Sight == 2                       \* properties.Sight of the configured types

\* Occupy patterns (MIXGrid.grid): the offsets <<x, y>> of the cells flagged 'x';
\* "none" is an entity whose properties name no OccupyList.
OccupyNames == {"none", "x", "xx", ".x"}
OccupyCells(name) ==
  CASE name = "x"  -> {<<0, 0>>}
    [] name = "xx" -> {<<0, 0>>, <<1, 0>>}
    [] name = ".x" -> {<<1, 0>>}
    [] OTHER       -> {}

\* The entity data (MIXMapEntityData and the type's properties) that the level
\* and the construction menu supply.  health 0 stands for "not given".
EntityData ==
  { [kind |-> "infantry", player |-> 0, cell |-> <<0, 0>>, health |-> 0,  occupy |-> "x"],
    [kind |-> "infantry", player |-> 1, cell |-> <<2, 0>>, health |-> 1,  occupy |-> "none"],
    [kind |-> "plain",    player |-> 1, cell |-> <<1, 0>>, health |-> 0,  occupy |-> "xx"],
    [kind |-> "plain",    player |-> 0, cell |-> <<2, 0>>, health |-> -1, occupy |-> "xx"] }

\* The objects a level of map.js supplies: as above, with an object whose
\* pattern leaves its anchor cell unflagged and one without a pattern.
MapEntityData ==
  { [kind |-> "infantry", player |-> 0, cell |-> <<0, 0>>, health |-> 0,  occupy |-> "x"],
    [kind |-> "infantry", player |-> 1, cell |-> <<2, 0>>, health |-> 1,  occupy |-> "none"],
    [kind |-> "plain",    player |-> 0, cell |-> <<2, 0>>, health |-> -1, occupy |-> "xx"],
    [kind |-> "plain",    player |-> 1, cell |-> <<0, 0>>, health |-> 0,  occupy |-> ".x"],
    [kind |-> "plain",    player |-> 1, cell |-> <<1, 0>>, health |-> 0,  occupy |-> "none"] }

----------------------------------------------------------------------------
(* Entity objects *)

NoEntity ==
  [st |-> "none", kind |-> "plain", player |-> 0, health |-> 1, hitPoints |-> 1,
   dying |-> FALSE, destroyed |-> FALSE, selected |-> FALSE,
   cell |-> <<0, 0>>, position |-> <<0, 0>>, direction |-> 0, occupy |-> "none",
   targetDirection |-> -1, targetPosition |-> NoPos, targetEntity |-> NoEnt,
   targetAction |-> "none", currentAction |-> "none", currentPath |-> <<>>,
   doneListeners |-> 0, animation |-> "", range |-> 0,
   hasTurret |-> FALSE, noTurretLock |-> FALSE, turretDirection |-> 0,
   rotates |-> FALSE, speed |-> Speed]

Constructed == {e \in Ents : ent[e].st # "none"}
InMap(e) == \E i \in 1..Len(entities) : entities[i] = e

RemoveFromSeq(s, x) == SelectSeq(s, LAMBDA y : y # x)

Footprint(r) == {<<r.cell[1] + o[1], r.cell[2] + o[2]>> : o \in OccupyCells(r.occupy)}

\* Variant without the per-cell catch: a footprint cell outside the grid makes
\* the call fail before any cell is written.
toggleWalkableTilesUncaught(w, r, t) ==
  IF Footprint(r) \subseteq DOMAIN w
  THEN [c \in DOMAIN w |-> IF c \in Footprint(r) THEN t ELSE w[c]]
  ELSE w

\* toggleWalkableTiles(t) of the entity with fields r, on walkable grid w.
\* PF.Grid.setWalkableAt throws for a cell outside the grid; the error is caught
\* per cell, so such a cell is skipped and the other cells are still set.
toggleWalkableTiles(w, r, t) ==
  [c \in DOMAIN w |-> IF c \in Footprint(r) THEN t ELSE w[c]]

isPlayer(r) == r.player = ScenePlayer
isSelectable(r) == r.kind = "infantry"
isMovable(r) == r.kind = "infantry"
canAttack(r) == r.kind = "infantry"      \* a primary weapon was created in init
isDestroyed(r) == r.destroyed \/ r.dying
isAttackable(r, source) ==
  IF ~isSelectable(r) THEN FALSE
  ELSE IF isPlayer(r) THEN FALSE ELSE source.player # r.player

\* A world is the part of the state the entity methods read and write.
\* dieCalls and deaths are history: the number of die() calls made on each entity
\* (counted up to 2) and the number of times the body of die() ran.
EmptyWorld ==
  [ent |-> [e \in Ents |-> NoEntity], walkable |-> [c \in Cells |-> TRUE], entities |-> <<>>,
   dieCalls |-> [e \in Ents |-> 0], deaths |-> [e \in Ents |-> 0]]

World == [EmptyWorld EXCEPT !.ent = ent, !.walkable = walkable, !.entities = entities,
                            !.dieCalls = ghost.dieCalls, !.deaths = ghost.deaths]

\* GameMapEntity.destroy(): unregister the footprint, then the base destroy(),
\* which marks the object destroyed and removes it from the map once.
destroy(W, e) ==
  LET r == W.ent[e]
      w1 == toggleWalkableTiles(W.walkable, r, TRUE)
  IN  IF ~r.destroyed
      THEN [W EXCEPT !.ent[e].destroyed = TRUE,
                     !.walkable = w1,
                     !.entities = RemoveFromSeq(W.entities, e)]
      ELSE [W EXCEPT !.walkable = w1]

\* Variant of the guard that lets every call through.
dieGuardOpen(r) == TRUE

\* The dying guard of die(): FALSE when already dying, else sets the flag.
dieGuard(r) == ~r.dying

\* GameMapEntity.die(destroy): result is <<world, returned value>>
dieEntity(W, e, destroyNow) ==
  IF dieGuard(W.ent[e])
  THEN LET r1 == [W.ent[e] EXCEPT !.dying = TRUE,
                                 !.targetDirection = -1,
                                 !.targetPosition = NoPos,
                                 !.currentPath = <<>>,
                                 !.targetEntity = NoEnt,
                                 !.targetAction = "none"]
           W1 == [W EXCEPT !.ent[e] = r1, !.deaths[e] = @ + 1]
       IN  <<IF destroyNow THEN destroy(W1, e) ELSE W1, TRUE>>
  ELSE <<W, FALSE>>

\* InfantryEntity.die(): die(false), then destroy() once the Die1 animation
\* signals 'done'.
dieInfantry(W, e) ==
  LET d == dieEntity(W, e, FALSE)
  IN  IF d[2]
      THEN <<[d[1] EXCEPT !.ent[e].doneListeners = @ + 1], TRUE>>
      ELSE <<d[1], FALSE>>

\* e.die() as dispatched on the entity's class
die(W, e) ==
  LET W0 == [W EXCEPT !.dieCalls[e] = Min(@ + 1, 2)]
  IN  IF W.ent[e].kind = "infantry" THEN dieInfantry(W0, e) ELSE dieEntity(W0, e, TRUE)

\* Variant of takeDamage without the clamp at zero.
takeDamageUnclamped(W, e, value) ==
  LET r == W.ent[e]
  IN  IF r.health > 0
      THEN LET h == r.health - value
               W1 == [W EXCEPT !.ent[e].health = h]
           IN  IF h <= 0 THEN die(W1, e)[1] ELSE W1
      ELSE W

\* takeDamage(value)
takeDamage(W, e, value) ==
  LET r == W.ent[e]
  IN  IF r.health > 0
      THEN LET h == Max(0, r.health - value)
               W1 == [W EXCEPT !.ent[e].health = h]
           IN  IF h <= 0 THEN die(W1, e)[1] ELSE W1
      ELSE W

----------------------------------------------------------------------------
(* Path planner: map.createPath(src, dst, force).  A* over the walkable grid,  *)
(* 8-connected, a diagonal step allowed when at most one of the two cells it   *)
(* passes between is blocked; force unblocks the destination.  The result      *)
(* excludes the source and is empty when there is no route.  Which of several  *)
(* shortest routes the finder returns is left open.                            *)

\* the grid the planner searches is the domain of w
CanEnter(w, c, dst, force) == c \in DOMAIN w /\ (w[c] \/ (force /\ c = dst))

StepOk(w, a, b, dst, force) ==
  /\ a # b
  /\ Abs(a[1] - b[1]) <= 1 /\ Abs(a[2] - b[2]) <= 1
  /\ CanEnter(w, b, dst, force)
  /\ (a[1] # b[1] /\ a[2] # b[2]) =>
       (CanEnter(w, <<a[1], b[2]>>, dst, force) \/ CanEnter(w, <<b[1], a[2]>>, dst, force))

\* the cells within k steps of src (each layer is bound once, as S)
RECURSIVE Seen(_, _, _, _, _)
Seen(w, src, dst, force, k) ==
  IF k = 0 THEN {src}
  ELSE UNION {S \cup {b \in DOMAIN w : \E a \in S : StepOk(w, a, b, dst, force)} :
                S \in {Seen(w, src, dst, force, k - 1)}}

\* the shortest routes of k steps from src to c
RECURSIVE PathsTo(_, _, _, _, _, _)
PathsTo(w, src, dst, force, c, k) ==
  IF k = 0 THEN (IF c = src THEN {<<>>} ELSE {})
  ELSE UNION {IF c \in before THEN {}
              ELSE UNION {{Append(p, c) : p \in PathsTo(w, src, dst, force, a, k - 1)} :
                           a \in {a \in before : StepOk(w, a, c, dst, force)}} :
                before \in {Seen(w, src, dst, force, k - 1)}}

\* the least number of steps, from k on, that reaches dst; 0 when none does
RECURSIVE Distance(_, _, _, _, _)
Distance(w, src, dst, force, k) ==
  CHOOSE n \in {IF dst \in S THEN k
                 ELSE IF S = Seen(w, src, dst, force, k - 1) THEN 0
                 ELSE Distance(w, src, dst, force, k + 1) :
                   S \in {Seen(w, src, dst, force, k)}} : TRUE

createPath(w, src, dst, force) ==
  LET k == Distance(w, src, dst, force, 1)
  IN  IF k = 0 \/ src = dst THEN {<<>>}
      ELSE PathsTo(w, src, dst, force, dst, k)

----------------------------------------------------------------------------
(* The per-tick state machine of GameMapEntity.  The entity kinds modelled     *)
(* cannot rotate (canRotate() is false) and have no free turret, so            *)
(* targetDirection stays -1 and the rotation branch is never taken.            *)

\* sin and cos of direction d of 8, times 10000
SinTab(d) == CASE d = 0 -> 0      [] d = 1 -> 7071  [] d = 2 -> 10000 [] d = 3 -> 7071
               [] d = 4 -> 0      [] d = 5 -> -7071 [] d = 6 -> -10000 [] OTHER -> -7071
CosTab(d) == CASE d = 0 -> 10000  [] d = 1 -> 7071  [] d = 2 -> 0     [] d = 3 -> -7071
               [] d = 4 -> -10000 [] d = 5 -> -7071 [] d = 6 -> 0     [] OTHER -> 7071

RoundDiv(a, b) == (2 * a + b) \div (2 * b)

\* getMovementSpeed(): properties.Speed || 0
getMovementSpeed(r) == r.speed

\* getMovementVelocity(): <<moving, velocity>>; moving is FALSE when the code
\* returns undefined (the remaining distance is at most one tick's travel)
getMovementVelocity(r) ==
  LET speed == (getMovementSpeed(r) * POS_UNIT) \div SPEED_DIVIDER
      direction == getDirection(r.targetPosition, r.position)
      vel == <<RoundDiv(speed * SinTab(direction), 10000),
               RoundDiv(speed * CosTab(direction), 10000)>>
      dx == r.targetPosition[1] - r.position[1]
      dy == r.targetPosition[2] - r.position[2]
  IN  <<dx * dx + dy * dy > speed * speed, vel>>

\* canRotate(): false in the base class; a unit class that turns before it
\* moves answers true
canRotate(r) == r.rotates

\* this.directions of the modelled kinds (InfantryEntity)
Directions == 8

\* getRotationSpeed() of the base entity
getRotationSpeed(r) == 1

\* getSight(): properties.Sight
getSight(r) == Sight

\* getWeaponSight(): weapon.Range of the weapon created in init
getWeaponSight(r) == r.range

\* Variant of moveTo that leaves the move in progress in place.
moveToKeepsMove(W, r, dst, force) ==
  {[r EXCEPT !.targetDirection = -1, !.currentPath = path] :
     path \in createPath(W.walkable, r.cell, dst, force)}

\* Variant of moveTo that queues the entity's own cell ahead of the route.
moveToFromSource(W, r, dst, force) ==
  {[r EXCEPT !.targetDirection = -1, !.targetPosition = NoPos,
             !.currentPath = IF path = <<>> THEN path ELSE <<r.cell>> \o path] :
     path \in createPath(W.walkable, r.cell, dst, force)}

\* moveTo(position, report, force): the possible entity records afterwards
moveTo(W, r, dst, force) ==
  {[r EXCEPT !.targetDirection = -1, !.targetPosition = NoPos, !.currentPath = path] :
     path \in createPath(W.walkable, r.cell, dst, force)}

\* Variant of lines 188-223 of tick() that engages one cell beyond the range.
tickTargetLongSight(W, e) ==
  LET r0 == W.ent[e]
      r1 == IF r0.targetEntity # NoEnt /\ isDestroyed(W.ent[r0.targetEntity])
            THEN [r0 EXCEPT !.targetEntity = NoEnt] ELSE r0
      r2 == [r1 EXCEPT !.currentAction = "none"]
  IN  IF r2.targetEntity = NoEnt THEN {r2}
      ELSE LET targetCell == W.ent[r2.targetEntity].cell
               direction == getDirection(targetCell, r2.cell)
               dx == targetCell[1] - r2.cell[1]
               dy == targetCell[2] - r2.cell[2]
               turretDirection == getDirection32(targetCell, r2.cell)
               sight == IF r2.targetAction = "harvest" THEN 0 ELSE getWeaponSight(r2)
               turretReached == RoundDirection(r2.turretDirection) = turretDirection
               rotateTurret == r2.hasTurret /\ ~r2.noTurretLock
           IN  IF rotateTurret /\ ~turretReached
               THEN {[r2 EXCEPT !.turretDirection =
                        getNewDirection(@, turretDirection, 4 * getRotationSpeed(r2),
                                        TurretDirections)]}
               ELSE IF dx * dx + dy * dy < (sight + 2) * (sight + 2)
               THEN {[r2 EXCEPT !.direction = IF canRotate(r2) THEN @
                                               ELSE direction * DIR_UNIT,
                                !.turretDirection = IF rotateTurret \/ ~r2.hasTurret THEN @
                                                    ELSE turretDirection * DIR_UNIT,
                                !.targetPosition = NoPos,
                                !.currentPath = <<>>,
                                !.currentAction = r2.targetAction]}
               ELSE IF r2.currentPath = <<>> /\ r2.targetPosition = NoPos
               THEN moveTo(W, r2, targetCell, TRUE)
               ELSE {r2}

\* Variant of lines 188-223 of tick() that tests the range before the turret.
tickTargetRangeFirst(W, e) ==
  LET r0 == W.ent[e]
      r1 == IF r0.targetEntity # NoEnt /\ isDestroyed(W.ent[r0.targetEntity])
            THEN [r0 EXCEPT !.targetEntity = NoEnt] ELSE r0
      r2 == [r1 EXCEPT !.currentAction = "none"]
  IN  IF r2.targetEntity = NoEnt THEN {r2}
      ELSE LET targetCell == W.ent[r2.targetEntity].cell
               direction == getDirection(targetCell, r2.cell)
               dx == targetCell[1] - r2.cell[1]
               dy == targetCell[2] - r2.cell[2]
               turretDirection == getDirection32(targetCell, r2.cell)
               sight == IF r2.targetAction = "harvest" THEN 0 ELSE getWeaponSight(r2)
               turretReached == RoundDirection(r2.turretDirection) = turretDirection
               rotateTurret == r2.hasTurret /\ ~r2.noTurretLock
           IN  IF dx * dx + dy * dy < (sight + 1) * (sight + 1)
               THEN {[r2 EXCEPT !.direction = IF canRotate(r2) THEN @
                                               ELSE direction * DIR_UNIT,
                                !.turretDirection = IF rotateTurret \/ ~r2.hasTurret THEN @
                                                    ELSE turretDirection * DIR_UNIT,
                                !.targetPosition = NoPos,
                                !.currentPath = <<>>,
                                !.currentAction = r2.targetAction]}
               ELSE IF rotateTurret /\ ~turretReached
               THEN {[r2 EXCEPT !.turretDirection =
                        getNewDirection(@, turretDirection, 4 * getRotationSpeed(r2),
                                        TurretDirections)]}
               ELSE IF r2.currentPath = <<>> /\ r2.targetPosition = NoPos
               THEN moveTo(W, r2, targetCell, TRUE)
               ELSE {r2}

\* Variant of lines 188-223 of tick() that keeps a destroyed or dying target.
tickTargetKeepsDestroyed(W, e) ==
  LET r2 == [W.ent[e] EXCEPT !.currentAction = "none"]
  IN  IF r2.targetEntity = NoEnt THEN {r2}
      ELSE LET targetCell == W.ent[r2.targetEntity].cell
               direction == getDirection(targetCell, r2.cell)
               dx == targetCell[1] - r2.cell[1]
               dy == targetCell[2] - r2.cell[2]
               turretDirection == getDirection32(targetCell, r2.cell)
               sight == IF r2.targetAction = "harvest" THEN 0 ELSE getWeaponSight(r2)
               turretReached == RoundDirection(r2.turretDirection) = turretDirection
               rotateTurret == r2.hasTurret /\ ~r2.noTurretLock
           IN  IF rotateTurret /\ ~turretReached
               THEN {[r2 EXCEPT !.turretDirection =
                        getNewDirection(@, turretDirection, 4 * getRotationSpeed(r2),
                                        TurretDirections)]}
               ELSE IF dx * dx + dy * dy < (sight + 1) * (sight + 1)
               THEN {[r2 EXCEPT !.direction = IF canRotate(r2) THEN @
                                               ELSE direction * DIR_UNIT,
                                !.turretDirection = IF rotateTurret \/ ~r2.hasTurret THEN @
                                                    ELSE turretDirection * DIR_UNIT,
                                !.targetPosition = NoPos,
                                !.currentPath = <<>>,
                                !.currentAction = r2.targetAction]}
               ELSE IF r2.currentPath = <<>> /\ r2.targetPosition = NoPos
               THEN moveTo(W, r2, targetCell, TRUE)
               ELSE {r2}

\* lines 188-223 of tick(): drop a destroyed target, then aim / engage / approach.
\* The turret direction is kept for entities with a turret only: line 214 also
\* writes it for an entity without one, where nothing reads it (turretReached
\* counts only under rotateTurret).
tickTarget(W, e) ==
  LET r0 == W.ent[e]
      r1 == IF r0.targetEntity # NoEnt /\ isDestroyed(W.ent[r0.targetEntity])
            THEN [r0 EXCEPT !.targetEntity = NoEnt] ELSE r0
      r2 == [r1 EXCEPT !.currentAction = "none"]
  IN  IF r2.targetEntity = NoEnt THEN {r2}
      ELSE LET targetCell == W.ent[r2.targetEntity].cell
               direction == getDirection(targetCell, r2.cell)
               dx == targetCell[1] - r2.cell[1]
               dy == targetCell[2] - r2.cell[2]
               turretDirection == getDirection32(targetCell, r2.cell)
               sight == IF r2.targetAction = "harvest" THEN 0 ELSE getWeaponSight(r2)
               turretReached == RoundDirection(r2.turretDirection) = turretDirection
               rotateTurret == r2.hasTurret /\ ~r2.noTurretLock
           IN  IF rotateTurret /\ ~turretReached
               THEN {[r2 EXCEPT !.turretDirection =
                        getNewDirection(@, turretDirection, 4 * getRotationSpeed(r2),
                                        TurretDirections)]}
               ELSE IF dx * dx + dy * dy < (sight + 1) * (sight + 1)   \* floor(distance) <= sight
               THEN {[r2 EXCEPT !.direction = IF canRotate(r2) THEN @
                                               ELSE direction * DIR_UNIT,
                                !.turretDirection = IF rotateTurret \/ ~r2.hasTurret THEN @
                                                    ELSE turretDirection * DIR_UNIT,
                                !.targetPosition = NoPos,
                                !.currentPath = <<>>,
                                !.currentAction = r2.targetAction]}
               ELSE IF r2.currentPath = <<>> /\ r2.targetPosition = NoPos
               THEN moveTo(W, r2, targetCell, TRUE)
               ELSE {r2}

\* Variant of lines 225-269 of tick() that looks at the path before the move
\* in progress.
tickActPathFirst(r) ==
  IF r.currentAction = "attack" THEN r
  ELSE IF r.currentAction = "harvest" THEN r
  ELSE IF r.targetDirection # -1
  THEN LET d == getNewDirection(r.direction, r.targetDirection, getRotationSpeed(r),
                               Directions)
       IN  [r EXCEPT !.direction = d,
                     !.targetDirection = IF RoundDirection(d) = @ THEN -1 ELSE @]
  ELSE IF r.currentPath # <<>>
  THEN LET destination == Head(r.currentPath)
           tp == pointFromCell(destination)
           direction == getDirection(tp, r.position)
       IN  [r EXCEPT !.currentPath = Tail(r.currentPath),
                     !.targetPosition = tp,
                     !.direction = IF canRotate(r) THEN @ ELSE direction * DIR_UNIT,
                     !.targetDirection = IF canRotate(r) THEN direction ELSE -1]
  ELSE IF r.targetPosition # NoPos
  THEN LET mv == getMovementVelocity(r)
       IN  IF mv[1]
           THEN LET p == <<r.position[1] - mv[2][1], r.position[2] - mv[2][2]>>
                IN  [r EXCEPT !.position = p, !.cell = cellFromPoint(p)]
           ELSE [r EXCEPT !.targetPosition = NoPos, !.targetDirection = -1]
  ELSE [r EXCEPT !.targetDirection = -1]

\* lines 225-269 of tick(): fire / harvest / rotate / move / take the next waypoint
tickAct(r) ==
  IF r.currentAction = "attack" THEN r          \* primaryWeapon.fire(target)
  ELSE IF r.currentAction = "harvest" THEN r    \* harvestResource(target)
  ELSE IF r.targetDirection # -1
  THEN LET d == getNewDirection(r.direction, r.targetDirection, getRotationSpeed(r),
                               Directions)
       IN  [r EXCEPT !.direction = d,
                     !.targetDirection = IF RoundDirection(d) = @ THEN -1 ELSE @]
  ELSE IF r.targetPosition # NoPos
  THEN LET mv == getMovementVelocity(r)
       IN  IF mv[1]
           THEN LET p == <<r.position[1] - mv[2][1], r.position[2] - mv[2][2]>>
                IN  [r EXCEPT !.position = p, !.cell = cellFromPoint(p)]
           ELSE [r EXCEPT !.targetPosition = NoPos, !.targetDirection = -1]
  ELSE IF r.currentPath # <<>>
  THEN LET destination == Head(r.currentPath)
           tp == pointFromCell(destination)
           direction == getDirection(tp, r.position)
       IN  [r EXCEPT !.currentPath = Tail(r.currentPath),
                     !.targetPosition = tp,
                     !.direction = IF canRotate(r) THEN @ ELSE direction * DIR_UNIT,
                     !.targetDirection = IF canRotate(r) THEN direction ELSE -1]
  ELSE [r EXCEPT !.targetDirection = -1]

\* Variant of tick() that runs the movement half before the target half.
tickMovesFirst(W, e) == tickTarget([W EXCEPT !.ent[e] = tickAct(W.ent[e])], e)

tick(W, e) == {tickAct(r) : r \in tickTarget(W, e)}

\* The animation's onUpdate(): when the Die1 animation is the current one it may
\* reach its last frame and emit 'done', which runs the listeners die() registered.
animationUpdate(W, e) ==
  LET r == W.ent[e]
  IN  IF r.animation = "Die1" /\ r.doneListeners > 0
      THEN {W, destroy([W EXCEPT !.ent[e].doneListeners = 0], e)}
      ELSE {W}

\* InfantryEntity.onUpdate(): the animation chosen at the end of the update
infantryAnimation(r) ==
  IF r.dying THEN "Die1" ELSE IF r.targetPosition # NoPos THEN "Walk" ELSE "Ready"

\* Variant of onUpdate that ticks a dying entity too.
onUpdateTicksDying(W, e) ==
  LET afterAnim == animationUpdate(W, e)
      ticked(W1) == {[W1 EXCEPT !.ent[e] = r] : r \in tick(W1, e)}
      named(W2) == IF W2.ent[e].kind = "infantry"
                   THEN [W2 EXCEPT !.ent[e].animation = infantryAnimation(W2.ent[e])]
                   ELSE W2
  IN  UNION {{named(W2) : W2 \in ticked(W1)} : W1 \in afterAnim}

\* onUpdate(deltaTime): the possible worlds afterwards
onUpdate(W, e) ==
  LET afterAnim == animationUpdate(W, e)
      ticked(W1) == IF ~W1.ent[e].dying
                    THEN {[W1 EXCEPT !.ent[e] = r] : r \in tick(W1, e)}
                    ELSE {W1}
      named(W2) == IF W2.ent[e].kind = "infantry"
                   THEN [W2 EXCEPT !.ent[e].animation = infantryAnimation(W2.ent[e])]
                   ELSE W2
  IN  UNION {{named(W2) : W2 \in ticked(W1)} : W1 \in afterAnim}

----------------------------------------------------------------------------
(* Theatre UI (handleClick, handleSelectionRectangle) *)

SelectedEntities(W) == SelectSeq(W.entities, LAMBDA x : W.ent[x].selected)

unselectEntities(W) ==
  [W EXCEPT !.ent = [x \in Ents |-> [W.ent[x] EXCEPT !.selected = FALSE]]]

\* setSelected(selected)
setSelected(r, sel) == IF ~isSelectable(r) THEN r ELSE [r EXCEPT !.selected = sel]

\* attack(target)
attack(r, target) == [r EXCEPT !.targetEntity = target, !.targetAction = "attack"]

\* move(position): the possible entity records afterwards
move(W, r, dst) ==
  moveTo(W, [r EXCEPT !.targetEntity = NoEnt, !.targetAction = "none"], dst, FALSE)

\* map.moveSelectedEntities(cell): move() on every selected entity in turn
RECURSIVE moveEach(_, _, _)
moveEach(W, sel, dst) ==
  IF sel = <<>> THEN {W}
  ELSE UNION {moveEach([W EXCEPT !.ent[Head(sel)] = r], Tail(sel), dst) :
                r \in move(W, W.ent[Head(sel)], dst)}

\* handleClick() with the pointer on entity hit (the first selectable entity
\* under the pointer)
clickOnEntity(W, hit) ==
  LET selected == SelectedEntities(W)
      canAtk == \E i \in 1..Len(selected) : canAttack(W.ent[selected[i]])
      atk == canAtk /\ isAttackable(W.ent[hit], W.ent[selected[1]])
  IN  IF atk
      THEN [W EXCEPT !.ent = [x \in Ents |->
                        IF \E i \in 1..Len(selected) : selected[i] = x
                        THEN attack(W.ent[x], hit) ELSE W.ent[x]]]
      ELSE LET W1 == unselectEntities(W)
           IN  [W1 EXCEPT !.ent[hit] = setSelected(W1.ent[hit], TRUE)]

\* handleSelectionRectangle() with the entities of set S inside the rectangle
selectRectangle(W, S) ==
  LET hitSel == {x \in S : isSelectable(W.ent[x])}
  IN  IF hitSel = {} THEN W
      ELSE LET W1 == unselectEntities(W)
           IN  [W1 EXCEPT !.ent = [x \in Ents |->
                   IF x \in hitSel /\ isPlayer(W1.ent[x]) /\ isMovable(W1.ent[x])
                   THEN setSelected(W1.ent[x], TRUE) ELSE W1.ent[x]]]

----------------------------------------------------------------------------
(* Construction: the constructor, init() and the registration with the map *)

HitPoints(kind) == MaxHealth

construct(W, e, kind, player, cell, healthOverride, occ) ==
  LET h0 == IF healthOverride = 0 THEN 1 ELSE healthOverride   \* parseInt(..) || 1
      hp == HitPoints(kind)
      h1 == IF healthOverride # 0 THEN Min(hp, h0) ELSE hp
      r  == [NoEntity EXCEPT !.st = "live", !.kind = kind, !.player = player,
                             !.health = h1, !.hitPoints = hp,
                             !.cell = cell, !.position = pointFromCell(cell),
                             !.direction = 0, !.occupy = occ, !.range = WeaponRange,
                             !.animation = IF kind = "infantry" THEN "Ready" ELSE ""]
  IN  [W EXCEPT !.ent[e] = r,
                !.walkable = toggleWalkableTiles(W.walkable, r, FALSE),
                !.entities = Append(W.entities, e)]

----------------------------------------------------------------------------
(* State machine of the entity layer *)

AllWalkable == [c \in Cells |-> TRUE]
NoGrid == <<>>
NoRet == [op |-> "other", e |-> NoEnt, val |-> FALSE]
\* at, todo, added: where load() stands ("new": not called, "tiles": suspended
\* in the loop over the terrain tiles, "done": returned), the tiles it has
\* still to visit, and (history) the non-passable tiles it has added
MapIdle == [loaded |-> FALSE, i |-> 0, at |-> "new", todo |-> <<>>, added |-> {}]

InitGhost ==
  [dieCalls |-> [e \in Ents |-> 0], deaths |-> [e \in Ents |-> 0],
   endGrid |-> NoGrid, stamps |-> <<>>, goal |-> NoPos]

InitSnapshot ==
  [snap |-> [e \in Ents |-> AllWalkable], quiet |-> [e \in Ents |-> FALSE]]

\* The terrain may leave a cell unwalkable before any entity is placed.
Init ==
  /\ ent = [e \in Ents |-> NoEntity]
  /\ walkable \in {AllWalkable, [AllWalkable EXCEPT ![<<1, 0>>] = FALSE]}
  /\ entities = <<>>
  /\ ret = NoRet
  /\ ghost = InitGhost
  /\ snapshot = InitSnapshot
  /\ baseGrid = NoGrid /\ grid = NoGrid /\ previousGrid = NoGrid
  /\ mapst = MapIdle

\* The step of an entity method that ends in world W2 and returns r.
Commit(W2, r) ==
  /\ mapst.i = 0
  /\ ent' = W2.ent
  /\ walkable' = W2.walkable
  /\ entities' = W2.entities
  /\ ret' = r
  /\ ghost' = [ghost EXCEPT !.dieCalls = W2.dieCalls, !.deaths = W2.deaths]
  /\ UNCHANGED <<gridVars, mapst>>

Construct(e, data) ==
  /\ mapst.i = 0
  /\ ent[e].st = "none"
  /\ \A x \in Ents : x < e => ent[x].st # "none"
  /\ \E d \in data :
       LET W2 == construct(World, e, d.kind, d.player, d.cell, d.health, d.occupy)
       IN  /\ ent' = W2.ent
           /\ walkable' = W2.walkable
           /\ entities' = W2.entities
           /\ ret' = NoRet
           /\ UNCHANGED <<ghost, gridVars, mapst>>

TakeDamage(e) ==
  /\ ent[e].st # "none"
  /\ \E v \in 1..MaxDamage : Commit(takeDamage(World, e, v), NoRet)

\* The call history of W2 put back to the recorded one
Unrecorded(W2) == [W2 EXCEPT !.dieCalls = ghost.dieCalls, !.deaths = ghost.deaths]

\* die() on entity e; rec tells whether the call and its result are recorded
Die(e, rec) ==
  /\ ent[e].st # "none"
  /\ LET d == die(World, e)
     IN  IF rec THEN Commit(d[1], [op |-> "die", e |-> e, val |-> d[2]])
         ELSE Commit(Unrecorded(d[1]), NoRet)

\* destroy() on entity e; rec tells whether the call is recorded
Destroy(e, rec) ==
  /\ ent[e].st # "none"
  /\ IF rec THEN Commit(destroy(World, e), [op |-> "destroy", e |-> e, val |-> FALSE])
     ELSE Commit(Unrecorded(destroy(World, e)), NoRet)

OnUpdate(e) ==
  /\ InMap(e)
  /\ \E W2 \in onUpdate(World, e) : Commit(W2, NoRet)

ClickEntity(hit) ==
  /\ InMap(hit)
  /\ isSelectable(ent[hit])
  /\ Commit(clickOnEntity(World, hit), NoRet)

ClickGround ==
  /\ SelectedEntities(World) # <<>>
  /\ \E c \in Cells :
       \E W2 \in moveEach(World, SelectedEntities(World), c) : Commit(W2, NoRet)

SelectRectangle ==
  \E S \in SUBSET {x \in Ents : InMap(x)} :
    /\ S # {}
    /\ Commit(selectRectangle(World, S), NoRet)

\* History kept for the footprint symmetry property: snap[e] is the walkable
\* grid just before e was constructed; quiet[e] holds while no other entity
\* has changed the walkable grid since.
NoSnap == UNCHANGED snapshot
Snap ==
  snapshot' =
    [snap  |-> [e \in Ents |-> IF ent[e].st = "none" /\ ent'[e].st # "none"
                               THEN walkable ELSE snapshot.snap[e]],
     quiet |-> [e \in Ents |->
                  IF ent[e].st = "none" THEN ent'[e].st # "none"
                  ELSE /\ snapshot.quiet[e]
                       /\ \/ walkable' = walkable
                          \/ ~ent[e].destroyed /\ ent'[e].destroyed]]

\* Life cycle: construction, damage, death, removal, ticks, selection and
\* attack orders.
Next ==
  \/ \E e \in Ents : Construct(e, EntityData) /\ NoSnap
  \/ \E e \in Ents : TakeDamage(e) /\ NoSnap
  \/ \E e \in Ents : Die(e, TRUE) /\ NoSnap
  \/ \E e \in Ents : Destroy(e, TRUE) /\ NoSnap
  \/ \E e \in Ents : OnUpdate(e) /\ NoSnap
  \/ \E e \in Ents : ClickEntity(e) /\ NoSnap

Spec == Init /\ [][Next]_vars

\* Movement: construction, selection, move and attack orders, ticks, removal.
NextMove ==
  \/ \E e \in Ents : Construct(e, EntityData) /\ Snap
  \/ \E e \in Ents : Destroy(e, TRUE) /\ Snap
  \/ \E e \in Ents : OnUpdate(e) /\ Snap
  \/ \E e \in Ents : ClickEntity(e) /\ Snap
  \/ ClickGround /\ Snap
  \/ SelectRectangle /\ Snap

SpecMove == Init /\ [][NextMove]_vars

----------------------------------------------------------------------------
(* The map grids of Map (map.js): baseGrid, grid and previousGrid hold one     *)
(* entry {id, value, object} per cell.  A row is a JavaScript array, so a      *)
(* write at a column past the last tile is kept; the grids carry one such      *)
(* column.  The objects of the map are the entities of the collection; an      *)
(* object's tile is the entity's cell and its OccupyList its occupy pattern.   *)

GridCells == (0..TilesX) \X (0..(TilesY - 1))
NoEntry == [id |-> "null", value |-> 0, object |-> NoEnt]
EmptyGrid == [c \in GridCells |-> NoEntry]
StampValue == 100

\* Non-passable terrain tiles of the level (tiles whose fourth field is unset)
TileData == {{}, {<<1, 0>>}}

\* copy() of engine/util: a deep copy, the result shares nothing with g
copy(g) == g

\* sizeX, sizeY of a map object without occupy pattern
ObjectSize(r) == IF r.kind = "plain" THEN <<2, 1>> ELSE <<0, 0>>

\* The cells addToGrid(object) writes: flagged pattern cells, else the
\* sizeX x sizeY rectangle, else the anchor cell
StampCells(r) ==
  IF r.occupy # "none" THEN Footprint(r)
  ELSE IF ObjectSize(r)[1] > 0 /\ ObjectSize(r)[2] > 0
  THEN {<<r.cell[1] + x, r.cell[2] + y>> :
          x \in 0..(ObjectSize(r)[1] - 1), y \in 0..(ObjectSize(r)[2] - 1)}
  ELSE {r.cell}

\* Variant of addToGrid that leaves a cell alone once an object is recorded in it.
addToGridKeepFirst(g, cells, entry) ==
  [c \in DOMAIN g |-> IF c \in cells /\ g[c].object = NoEnt THEN entry ELSE g[c]]

\* addToGrid(object, value): add() writes wherever the row exists
addToGrid(g, cells, entry) ==
  [c \in DOMAIN g |-> IF c \in cells THEN entry ELSE g[c]]

\* getGrid(x, y, p)
getGrid(c, p) ==
  LET g == IF p THEN previousGrid ELSE grid
  IN  IF c \in DOMAIN g THEN g[c] ELSE NoEntry

\* isBlocking() of a map object: it blocks until it is removed
isBlocking(r) == ~r.destroyed

MapGrids == [baseGrid |-> baseGrid, grid |-> grid, previousGrid |-> previousGrid]

\* Variant of the first two statements of update() that takes the snapshot
\* after the reset.
updateBeginResetFirst(M) ==
  LET g == copy(M.baseGrid)
  IN  [M EXCEPT !.grid = g, !.previousGrid = copy(g)]

\* Variant of the first two statements of update() that keeps the current grid
\* as the new base.
updateBeginRebase(M) ==
  [M EXCEPT !.previousGrid = copy(M.grid), !.baseGrid = copy(M.grid)]

\* Variant of the first two statements of update() that leaves the current
\* grid as it is.
updateBeginKeepsGrid(M) ==
  [M EXCEPT !.previousGrid = copy(M.grid)]

\* update(), first two statements
updateBegin(M) ==
  [M EXCEPT !.previousGrid = copy(M.grid), !.grid = copy(M.baseGrid)]

\* load(data): the grids are allocated, every non-passable tile is stamped,
\* and the result becomes the base grid
load(M, tiles) ==
  LET g == addToGrid(EmptyGrid, tiles, [id |-> "tile", value |-> StampValue, object |-> NoEnt])
  IN  [baseGrid |-> copy(g), grid |-> g, previousGrid |-> EmptyGrid]

\* The cost grid action() hands to the finder, as walkability
actionGrid(W, g, act, d) ==
  [c \in Cells |->
     LET col == IF c \in DOMAIN g THEN g[c] ELSE NoEntry
         v == IF act = "attack" /\ col.object # NoEnt /\ isPlayer(W.ent[col.object])
              THEN 0 ELSE col.value
     IN  (act = "attack" /\ c = d) \/ v = 0]

\* setPath(path, true) and setTarget(target) of a map object
setPath(r, path) == [r EXCEPT !.currentPath = path, !.targetPosition = NoPos]
setTarget(r, target) ==
  [r EXCEPT !.targetEntity = target,
            !.targetAction = IF target = NoEnt THEN "none" ELSE "attack"]

\* Variant of action() in which one finder grid serves all the objects, so
\* that a later object finds the cells of the earlier routes closed.
RECURSIVE actionEachSharedGrid(_, _, _, _, _, _)
actionEachSharedGrid(W, g, objs, act, d, target) ==
  IF objs = <<>> THEN {W}
  ELSE LET o == Head(objs)
           r0 == setTarget(W.ent[o], NoEnt)
           s == cellFromPoint(r0.position)
           done(path) == LET r1 == setPath(r0, path)
                         IN  IF path # <<>> /\ target # NoEnt
                             THEN setTarget(r1, target) ELSE r1
           closed == {c \in Cells : \E x \in Ents : \E i \in 1..Len(W.ent[x].currentPath) :
                                      W.ent[x].currentPath[i] = c}
           open == [c \in Cells |-> actionGrid(W, g, act, d)[c] /\ c \notin closed]
       IN  UNION {actionEachSharedGrid([W EXCEPT !.ent[o] = done(path)], g, Tail(objs), act, d, target) :
                    path \in createPath(open, s, d, FALSE)}

\* action(action, args) on the selected friendly objects, in turn
RECURSIVE actionEach(_, _, _, _, _, _)
actionEach(W, g, objs, act, d, target) ==
  IF objs = <<>> THEN {W}
  ELSE LET o == Head(objs)
           r0 == setTarget(W.ent[o], NoEnt)
           s == cellFromPoint(r0.position)
           done(path) == LET r1 == setPath(r0, path)
                         IN  IF path # <<>> /\ target # NoEnt
                             THEN setTarget(r1, target) ELSE r1
       IN  UNION {actionEach([W EXCEPT !.ent[o] = done(path)], g, Tail(objs), act, d, target) :
                    path \in createPath(actionGrid(W, g, act, d), s, d, FALSE)}

Load ==
  /\ mapst.i = 0
  /\ ~mapst.loaded
  /\ \E tiles \in TileData :
       LET M == load(MapGrids, tiles)
       IN  /\ baseGrid' = M.baseGrid /\ grid' = M.grid /\ previousGrid' = M.previousGrid
  /\ mapst' = [mapst EXCEPT !.loaded = TRUE, !.at = "done"]
  /\ ret' = NoRet
  /\ UNCHANGED <<ent, walkable, entities, ghost, snapshot>>

\* update() up to the loop; the scene runs it once the map is loaded
UpdateBegin ==
  /\ mapst.i = 0
  /\ mapst.loaded
  /\ LET M == updateBegin(MapGrids)
     IN  /\ baseGrid' = M.baseGrid /\ grid' = M.grid /\ previousGrid' = M.previousGrid
         /\ ghost' = [ghost EXCEPT !.stamps = <<>>,
                                  
                                   !.endGrid = IF Len(entities) = 0 THEN M.grid ELSE @]
  /\ mapst' = [mapst EXCEPT !.i = IF Len(entities) = 0 THEN 0 ELSE 1]
  /\ ret' = [op |-> "update", e |-> NoEnt, val |-> Len(entities) = 0]
  /\ UNCHANGED <<ent, walkable, entities, snapshot>>

\* One round of the loop of update(): objects[i] updates, then is stamped when
\* it reports isBlocking()
UpdateStep ==
  /\ mapst.i > 0
  /\ LET o == entities[mapst.i]
     IN  \E W2 \in onUpdate(World, o) :
           LET r == W2.ent[o]
               stamp == isBlocking(r)
               g == IF stamp
                    THEN addToGrid(grid, StampCells(r),
                                   [id |-> r.kind, value |-> StampValue, object |-> o])
                    ELSE grid
               last == mapst.i + 1 > Len(W2.entities)
           IN  /\ ent' = W2.ent
               /\ walkable' = W2.walkable
               /\ entities' = W2.entities
               /\ grid' = g
               /\ mapst' = [mapst EXCEPT !.i = IF last THEN 0 ELSE mapst.i + 1]
               /\ ret' = [op |-> "update", e |-> o, val |-> last]
               /\ ghost' = [ghost EXCEPT
                    !.stamps = IF stamp
                               THEN Append(@, [object |-> o, id |-> r.kind, cells |-> StampCells(r)])
                               ELSE @,
                    !.endGrid = IF last THEN g ELSE @]
  /\ UNCHANGED <<baseGrid, previousGrid, snapshot>>

MapAction ==
  /\ mapst.i = 0
  /\ mapst.loaded
  /\ LET objs == SelectSeq(SelectedEntities(World), LAMBDA x : isPlayer(ent[x]))
     IN  /\ objs # <<>>
         /\ \/ \E d \in Cells :
                 \E W2 \in actionEach(World, grid, objs, "move", d, NoEnt) : Commit(W2, NoRet)
            \/ \E t \in Ents :
                 /\ InMap(t)
                 /\ \E W2 \in actionEach(World, grid, objs, "attack", ent[t].cell, t) :
                      Commit(W2, NoRet)

\* The map: load, then object construction, ticks, orders and death.  The
\* level's blocked terrain is in the tiles handed to load().
InitMap == Init /\ walkable = AllWalkable

NextMap ==
  \/ Load /\ NoSnap
  \/ UpdateBegin /\ NoSnap
  \/ UpdateStep /\ NoSnap
  \/ MapAction /\ NoSnap
  \/ \E e \in Ents : mapst.loaded /\ Construct(e, MapEntityData) /\ NoSnap
  \/ \E e \in Ents : Die(e, FALSE) /\ NoSnap
  \/ \E e \in Ents : ClickEntity(e) /\ NoSnap

SpecMap == InitMap /\ [][NextMap]_vars

\* A round of the loop of update() in which objects[i].update() throws: the
\* loop has no handler, so update() ends there; the object is not stamped and
\* the objects after it are not reached.  Whether an update throws is an input.
UpdateRaise ==
  /\ mapst.i > 0
  /\ mapst' = [mapst EXCEPT !.i = 0]
  /\ ret' = [op |-> "raise", e |-> entities[mapst.i], val |-> mapst.i = Len(entities)]
  /\ UNCHANGED <<ent, walkable, entities, ghost, gridVars>>

\* The map with objects whose update may throw: load, construction and passes
\* of update()
NextMapFault ==
  \/ Load /\ NoSnap
  \/ UpdateBegin /\ NoSnap
  \/ UpdateStep /\ NoSnap
  \/ UpdateRaise /\ NoSnap
  \/ \E e \in Ents : mapst.loaded /\ Construct(e, MapEntityData) /\ NoSnap

SpecMapFault == InitMap /\ [][NextMapFault]_vars

----------------------------------------------------------------------------
(* Properties of the entity layer *)

\* C1: die() returns true on the first call made on an entity and false on
\* every later call, and a call that returns false changes no entity, no grid
\* and no collection.
C1_DieOnce ==
  [][ret'.op = "die" =>
       /\ ret'.val = (ghost.dieCalls[ret'.e] = 0)
       /\ ~ret'.val => UNCHANGED <<ent, walkable, entities, gridVars>>]_vars

\* a second die() call has been made on an entity and returned false
C1_Witness ==
  ret.op = "die" /\ ~ret.val /\ ghost.dieCalls[ret.e] = 2 /\ ghost.deaths[ret.e] = 1

\* C2 (as claimed): once die() has succeeded on an entity, no later call
\* changes its health.
C2_HealthFrozenAfterDeath ==
  [][\A e \in Ents : ghost.deaths[e] >= 1 => ent'[e].health = ent[e].health]_vars

\* C3: takeDamage never takes health below zero; for an entity that is alive,
\* die() succeeds in exactly the call in which health reaches zero, and never
\* twice; from then on health stays 0 and isDestroyed() is true.
C3_DamageAndDeath ==
  /\ [](\A e \in Ents : /\ ghost.deaths[e] <= 1
                        /\ (ent[e].st # "none" /\ ent[e].health = 0) => isDestroyed(ent[e]))
  /\ [][\A e \in Ents : ent[e].st # "none" =>
          /\ ent'[e].health # ent[e].health => ent'[e].health >= 0
          /\ (ent[e].health > 0 /\ ~isDestroyed(ent[e]) /\ ent'[e].health = 0)
               => (ghost.deaths[e] = 0 /\ ghost'.deaths[e] = 1)
          /\ (ent'[e].health # ent[e].health /\ ent'[e].health > 0)
               => ghost'.deaths[e] = ghost.deaths[e]
          /\ ent[e].health = 0 => (ent'[e].health = 0 /\ isDestroyed(ent'[e]))]_vars

\* an entity was brought from full health to zero by damage and died once
C3_Witness ==
  \E e \in Ents : /\ ent[e].st # "none" /\ ent[e].health = 0
                  /\ ghost.deaths[e] = 1 /\ ghost.dieCalls[e] = 1 /\ ~ent[e].destroyed

\* C4 (as claimed): an entity in the map whose dying flag is set is neither
\* selectable nor attackable by any entity.
C4_DyingNotTargetable ==
  \A e \in Ents : (InMap(e) /\ ent[e].dying) =>
     /\ ~isSelectable(ent[e])
     /\ \A s \in Constructed : ~isAttackable(ent[e], ent[s])

\* C5 (as claimed): when an entity is destroyed and no other entity has touched
\* the walkable grid since its construction, the grid is again what it was
\* before the construction.
C5_ToggleSymmetry ==
  [][\A e \in Ents :
       (~ent[e].destroyed /\ ent'[e].destroyed /\ snapshot.quiet[e])
          => walkable' = snapshot.snap[e]]_vars

\* C6: in the step in which an entity becomes destroyed, on every destruction
\* path, every footprint cell inside the grid is walkable and the entity has
\* left the map; a footprint cell outside the grid does not prevent it.
C6_UnmarkOnDestroy ==
  [][\A e \in Ents :
       (~ent[e].destroyed /\ ent'[e].destroyed) =>
          /\ \A c \in Footprint(ent'[e]) \cap Cells : walkable'[c]
          /\ \A i \in 1..Len(entities') : entities'[i] # e]_vars

\* a destroyed entity whose footprint reaches over the map edge, its cells freed
C6_Witness ==
  \E e \in Ents :
    /\ ent[e].destroyed
    /\ ent[e].dying
    /\ Footprint(ent[e]) \ Cells # {}
    /\ Footprint(ent[e]) \cap Cells # {}
    /\ \A c \in Footprint(ent[e]) \cap Cells : walkable[c]

\* C7 (as claimed): destroy() on an entity that is already destroyed changes
\* neither the entity collection nor the walkability of any cell.
C7_SecondDestroyNoOp ==
  [][(ret'.op = "destroy" /\ ent[ret'.e].destroyed)
       => UNCHANGED <<walkable, entities>>]_vars

----------------------------------------------------------------------------
(* Properties of the map grids *)

\* C8 (as claimed): after a completed update() every occupant recorded in the
\* current grid is in the collection, is not dying, and has a footprint that
\* covers the cell it is recorded in.
C8_OccupantsLive ==
  (ret.op = "update" /\ mapst.i = 0) =>
     \A c \in DOMAIN grid :
        grid[c].object # NoEnt =>
           /\ InMap(grid[c].object)
           /\ ~ent[grid[c].object].dying
           /\ c \in StampCells(ent[grid[c].object])

\* C9: once load() has completed no step changes the base grid.
C9_BaseImmutable ==
  [][mapst.loaded => baseGrid' = baseGrid]_vars

\* a loaded map with terrain in the base grid, after a tick that stamped
\* objects and a tick before it that left a different grid
C9_Witness ==
  /\ mapst.loaded /\ mapst.i = 0 /\ ret.op = "update"
  /\ baseGrid[<<1, 0>>].id = "tile"
  /\ grid # baseGrid
  /\ previousGrid # grid
  /\ previousGrid # EmptyGrid

\* base overlaid with the stamps of log in order, the later stamp winning
StampedOver(base, log) ==
  [c \in DOMAIN base |->
     LET hits == {k \in 1..Len(log) : c \in log[k].cells}
     IN  IF hits = {} THEN base[c]
         ELSE LET k == CHOOSE k \in hits : \A j \in hits : j <= k
              IN  [id |-> log[k].id, value |-> StampValue, object |-> log[k].object]]

\* C10: from the second tick on, the previous grid is, throughout the tick,
\* the current grid as the tick before left it; and the current grid a tick
\* leaves is the base grid overlaid with the stamps of that tick alone.
C10_PreviousIsLastTick ==
  /\ [][(ret'.op = "update" /\ ghost.endGrid # NoGrid)
          => previousGrid' = ghost.endGrid]_vars
  /\ []((ret.op = "update" /\ mapst.i = 0) => grid = StampedOver(baseGrid, ghost.stamps))

\* the end of a later tick: the tick before left stamps that this tick did not
\* repeat
C10_Witness ==
  /\ ret.op = "update" /\ mapst.i = 0
  /\ previousGrid # NoGrid
  /\ previousGrid # baseGrid
  /\ previousGrid # grid
  /\ \E c \in GridCells : previousGrid[c].object # NoEnt /\ grid[c].object = NoEnt

\* Coordinates around the map that lie outside [0, tilesX) x [0, tilesY)
OutCoords == (((-1)..(TilesX + 1)) \X ((-1)..TilesY)) \ Cells

\* C11 (as claimed): for every coordinate outside the map, getGrid returns the
\* default entry from the current and from the previous grid, so no stamp is
\* ever kept at an out-of-bounds coordinate.
C11_OutOfBoundsDefault ==
  \A c \in OutCoords : getGrid(c, FALSE) = NoEntry /\ getGrid(c, TRUE) = NoEntry

\* The footprint the stamping rule gives an object: the flagged cells of its
\* pattern, without a pattern its sizeX x sizeY rectangle, without a size its
\* anchor cell
FootprintOf(r) ==
  LET size == ObjectSize(r)
      offsets == IF r.occupy # "none" THEN OccupyCells(r.occupy)
                 ELSE IF size[1] > 0 /\ size[2] > 0
                 THEN (0..(size[1] - 1)) \X (0..(size[2] - 1))
                 ELSE {<<0, 0>>}
  IN  {<<r.cell[1] + o[1], r.cell[2] + o[2]>> : o \in offsets}

\* The objects that reported isBlocking() in the pass, in iteration order
Reporters == [k \in 1..Len(ghost.stamps) |-> ghost.stamps[k].object]

\* C12: at the end of update() every cell of the map holds the base entry when
\* no reporting object's footprint covers it, and otherwise the entry
\* {id, 100, object} of the last reporting object, in iteration order, whose
\* footprint covers it.
C12_GridIsBasePlusFootprints ==
  (ret.op = "update" /\ mapst.i = 0) =>
     \A c \in Cells :
        LET hits == {k \in 1..Len(Reporters) : c \in FootprintOf(ent[Reporters[k]])}
        IN  IF hits = {} THEN grid[c] = baseGrid[c]
            ELSE LET o == Reporters[CHOOSE k \in hits : \A j \in hits : j <= k]
                 IN  grid[c] = [id |-> ent[o].kind, value |-> StampValue, object |-> o]

\* the end of a pass that stamped an object whose pattern leaves its anchor
\* unflagged and, after it, an object without pattern whose rectangle overlaps it
C12_Witness ==
  /\ ret.op = "update" /\ mapst.i = 0
  /\ Len(Reporters) = 2
  /\ ent[Reporters[1]].occupy = ".x" /\ ent[Reporters[2]].occupy = "none"
  /\ grid[ent[Reporters[1]].cell].object = NoEnt
  /\ FootprintOf(ent[Reporters[1]]) \cap FootprintOf(ent[Reporters[2]]) # {}
  /\ \A c \in FootprintOf(ent[Reporters[2]]) \cap Cells : grid[c].object = Reporters[2]
  /\ Cardinality(FootprintOf(ent[Reporters[2]])) = 2

\* C28: update() takes the snapshot into previousGrid and resets grid from
\* baseGrid before the first object updates; while the object at iteration
\* index i is due, every cell of the map holds the base entry or the stamp of
\* the last blocking object visited before i whose footprint covers it, and no
\* object at index i or above is in the grid; previousGrid stays as it is
\* during the pass.
C28_GridBehindIterator ==
  /\ [](mapst.i > 0 =>
          /\ \A c \in Cells :
                LET hits == {k \in 1..Len(Reporters) : c \in FootprintOf(ent[Reporters[k]])}
                IN  IF hits = {} THEN grid[c] = baseGrid[c]
                    ELSE LET o == Reporters[CHOOSE k \in hits : \A j \in hits : j <= k]
                         IN  grid[c] = [id |-> ent[o].kind, value |-> StampValue, object |-> o]
          /\ \A j \in mapst.i..Len(entities) :
                /\ \A k \in 1..Len(Reporters) : Reporters[k] # entities[j]
                /\ \A c \in GridCells : grid[c].object # entities[j])
  /\ [][(mapst.i = 0 /\ mapst'.i > 0) =>
          (previousGrid' = grid /\ grid' = baseGrid /\ ghost'.stamps = <<>>)]_vars
  /\ [][mapst.i > 0 => (previousGrid' = previousGrid /\ baseGrid' = baseGrid)]_vars

\* the second object of the collection is due: the first is stamped, and the
\* second, which the previous pass had stamped, is not in the grid
C28_Witness ==
  /\ mapst.i = 2 /\ Len(entities) = 2
  /\ Len(Reporters) = 1 /\ Reporters[1] = entities[1]
  /\ \E c \in Cells : grid[c].object = entities[1]
  /\ \E c \in Cells : previousGrid[c].object = entities[2] /\ grid[c] = baseGrid[c]

\* C36: in the pass of update() no object is passed over: when the object
\* after the one being updated is still in the collection after that update,
\* it is the next one the pass updates; and an object that leaves the
\* collection during its own update is not stamped into the grid.
C36_EveryObjectUpdated ==
  [][mapst.i > 0 =>
       LET i == mapst.i
       IN  /\ (i + 1 <= Len(entities)
                /\ \E j \in 1..Len(entities') : entities'[j] = entities[i + 1])
               => (mapst'.i > 0 /\ entities'[mapst'.i] = entities[i + 1])
           /\ (\A j \in 1..Len(entities') : entities'[j] # entities[i])
               => grid' = grid]_vars

\* C40: on a map without blocked terrain the unwalkable cells are exactly the
\* cells that the occupy patterns of the initialised, not destroyed entities
\* cover at the entities' current cells.
C40_UnwalkableIsFootprints ==
  {c \in DOMAIN walkable : ~walkable[c]}
    = UNION {Footprint(ent[e]) \cap DOMAIN walkable :
               e \in {x \in Ents : ent[x].st # "none" /\ ~ent[x].destroyed}}

\* C23: when the update of one object has raised an error during update(),
\* every other blocking object of the collection has been stamped into the
\* grid in that same pass.
C23_OthersStillUpdated ==
  ret.op = "raise" =>
     \A i \in 1..Len(entities) :
        (entities[i] # ret.e /\ isBlocking(ent[entities[i]])) =>
           \E k \in 1..Len(ghost.stamps) : ghost.stamps[k].object = entities[i]

----------------------------------------------------------------------------
(* Single calls on chosen inputs: the operation is applied once to inputs     *)
(* drawn from bounded sets and its result is kept in ret.                     *)

MaxSight == 3
ProbeCells == (0..(MaxSight + 1)) \X (0..(MaxSight + 1))

Probe(r) ==
  /\ ret = NoRet
  /\ ret' = r
  /\ UNCHANGED <<ent, walkable, entities, ghost, snapshot, gridVars, mapst>>

\* A world of two entities: entity 1, at cell src with a weapon of range sight
\* and part of a move still to do, has been ordered to attack entity 2 at dst.
AttackWorld(src, dst, sight) ==
  LET a == [NoEntity EXCEPT !.st = "live", !.kind = "infantry", !.player = ScenePlayer,
                            !.health = MaxHealth, !.hitPoints = MaxHealth,
                            !.cell = src, !.position = pointFromCell(src),
                            !.range = sight, !.animation = "Walk",
                            !.targetPosition = pointFromCell(src),
                            !.currentPath = <<src>>,
                            !.targetEntity = 2, !.targetAction = "attack"]
      t == [NoEntity EXCEPT !.st = "live", !.kind = "infantry", !.player = 1,
                            !.health = MaxHealth, !.hitPoints = MaxHealth,
                            !.cell = dst, !.position = pointFromCell(dst),
                            !.range = sight, !.animation = "Ready"]
  IN  [EmptyWorld EXCEPT
         !.ent = [EmptyWorld.ent EXCEPT ![1] = a, ![2] = t],
         !.entities = <<1, 2>>]

\* One tick of an attacker: val tells whether it engaged (action attack,
\* movement cleared), off whether it left the target alone
TickRange ==
  ret = NoRet /\
  \E src \in ProbeCells, dst \in ProbeCells, sight \in 0..MaxSight :
    LET after == tick(AttackWorld(src, dst, sight), 1)
    IN  Probe([op |-> "tick", e |-> 1,
               val |-> \A r \in after : /\ r.currentAction = "attack"
                                        /\ r.targetPosition = NoPos
                                        /\ r.currentPath = <<>>,
               off |-> \A r \in after : r.currentAction # "attack",
               src |-> src, dst |-> dst, sight |-> sight])

MaxRotation == 2

\* getNewDirection on every direction, target bucket and rotation speed, for
\* the hull (speed n) and for the turret (speed 4 n)
GetNewDirection ==
  ret = NoRet /\
  \E dirs \in DirectionCounts :
    \E current \in 0..(dirs * DIR_UNIT - 1), target \in 0..(dirs - 1),
       n \in 1..MaxRotation, turret \in BOOLEAN :
      LET speed == IF turret THEN 4 * n ELSE n
      IN  Probe([op |-> "getNewDirection", e |-> NoEnt,
                 val |-> getNewDirection(current, target, speed, dirs),
                 current |-> current, target |-> target, speed |-> speed, dirs |-> dirs])

\* getDirection(target, source, 8) on every pair of cells
GetDirection ==
  ret = NoRet /\
  \E target \in ProbeCells, source \in ProbeCells :
    Probe([op |-> "getDirection", e |-> NoEnt, val |-> getDirection(target, source),
           target |-> target, source |-> source])

\* setPosition(position, updateCell) and setCell(cell, updatePosition) of
\* GameMapBaseEntity, on the entity with fields r; both flags default to false
setPosition(r, position, updateCell) ==
  IF updateCell
  THEN [r EXCEPT !.position = position, !.cell = cellFromPoint(position)]
  ELSE [r EXCEPT !.position = position]

setCell(r, cell, updatePosition) ==
  IF updatePosition
  THEN setPosition([r EXCEPT !.cell = cell], pointFromCell(cell), FALSE)
  ELSE [r EXCEPT !.cell = cell]

\* pixel positions at the two ends of each probe cell
ProbePoints ==
  {<<pointFromCell(c)[1] + dx * POS_UNIT, pointFromCell(c)[2] + dy * POS_UNIT>> :
     c \in ProbeCells, dx \in {0, CELL_SIZE - 1}, dy \in {0, CELL_SIZE - 1}}

\* setCell / setPosition on an entity constructed at cell c0
SetCell ==
  ret = NoRet /\
  \E c0 \in ProbeCells, c1 \in ProbeCells, update \in BOOLEAN :
    LET r == setCell(setCell(NoEntity, c0, TRUE), c1, update)
    IN  Probe([op |-> "setCell", e |-> NoEnt, val |-> update,
               cell |-> r.cell, position |-> r.position])

SetPosition ==
  ret = NoRet /\
  \E c0 \in ProbeCells, p1 \in ProbePoints, update \in BOOLEAN :
    LET r == setPosition(setCell(NoEntity, c0, TRUE), p1, update)
    IN  Probe([op |-> "setPosition", e |-> NoEnt, val |-> update,
               cell |-> r.cell, position |-> r.position])

IdleTicks == 3

\* the worlds after n ticks of entity e
RECURSIVE ticks(_, _, _)
ticks(W, e, n) ==
  IF n = 0 THEN {W}
  ELSE UNION {{[W1 EXCEPT !.ent[e] = r] : r \in tick(W1, e)} : W1 \in ticks(W, e, n - 1)}

\* A world with the player's infantry 1 at src, either idle or on its way to
\* the neighbouring cell via, and a hostile infantry 2 at cell other
OrderWorld(w, src, via, other) ==
  LET tp == pointFromCell(via)
      a == [NoEntity EXCEPT !.st = "live", !.kind = "infantry", !.player = ScenePlayer,
                            !.health = MaxHealth, !.hitPoints = MaxHealth,
                            !.cell = src, !.position = pointFromCell(src),
                            !.range = WeaponRange, !.selected = TRUE,
                            !.animation = IF via = src THEN "Ready" ELSE "Walk",
                            !.direction = IF via = src THEN 0
                                          ELSE getDirection(tp, pointFromCell(src)) * DIR_UNIT,
                            !.targetPosition = IF via = src THEN NoPos ELSE tp]
      t == [NoEntity EXCEPT !.st = "live", !.kind = "infantry", !.player = 1,
                            !.health = MaxHealth, !.hitPoints = MaxHealth,
                            !.cell = other, !.position = pointFromCell(other),
                            !.range = WeaponRange, !.animation = "Ready"]
  IN  [EmptyWorld EXCEPT
         !.ent = [EmptyWorld.ent EXCEPT ![1] = a, ![2] = t],
         !.walkable = w, !.entities = <<1, 2>>]

\* where entity e is in each of the worlds Ws
Places(Ws, e) == {<<W.ent[e].position, W.ent[e].cell>> : W \in Ws}

\* move(dst) on entity 1, then up to IdleTicks ticks of it; val is what moveTo
\* returned
MoveOrder ==
  ret = NoRet /\
  \E w \in [Cells -> BOOLEAN], src \in Cells, via \in Cells, dst \in Cells :
    /\ Abs(via[1] - src[1]) <= 1 /\ Abs(via[2] - src[2]) <= 1
    /\ w[src] /\ w[via]
    /\ LET W == OrderWorld(w, src, via, src)
       IN  \E r \in move(W, W.ent[1], dst) :
             LET W1 == [W EXCEPT !.ent[1] = r]
             IN  Probe([op |-> "move", e |-> 1, val |-> r.currentPath # <<>>,
                        src |-> src, via |-> via, dst |-> dst, after |-> r,
                        later |-> UNION {Places(ticks(W1, 1, n), 1) : n \in 1..IdleTicks}])

\* the grid of a map whose tiles in B are not passable
TileGrid(B) == addToGrid(EmptyGrid, B, [id |-> "tile", value |-> StampValue, object |-> NoEnt])

\* action('move', d) or action('attack', entity 2) of the map on the selected
\* entity 1; val tells whether the route handed to setPath had a waypoint
ActionOrder ==
  ret = NoRet /\
  \E B \in SUBSET Cells, src \in Cells, via \in Cells, d \in Cells, atk \in BOOLEAN :
    /\ Abs(via[1] - src[1]) <= 1 /\ Abs(via[2] - src[2]) <= 1
    /\ src \notin B /\ via \notin B
    /\ LET W == OrderWorld(AllWalkable, src, via, d)
       IN  \E W2 \in actionEach(W, TileGrid(B), <<1>>, IF atk THEN "attack" ELSE "move", d,
                                IF atk THEN 2 ELSE NoEnt) :
             Probe([op |-> "action", e |-> 1, val |-> W2.ent[1].currentPath # <<>>,
                    src |-> src, via |-> via, dst |-> d, after |-> W2.ent[1],
                    attack |-> atk, blocked |-> B])

\* action('move', d) on two selected objects of the player, in either order
\* of selection; alone holds, for each object, the routes the planner can
\* return for the same weights, source and destination
ActionBoth ==
  ret = NoRet /\
  \E B \in SUBSET Cells, s1 \in Cells, s2 \in Cells, d \in Cells, objs \in {<<1, 2>>, <<2, 1>>} :
    /\ s1 # s2
    /\ LET W0 == OrderWorld(AllWalkable, s1, s1, s2)
           W == [W0 EXCEPT !.ent[2].player = ScenePlayer, !.ent[2].selected = TRUE]
           g == TileGrid(B)
       IN  \E W2 \in actionEach(W, g, objs, "move", d, NoEnt) :
             Probe([op |-> "actionBoth", e |-> Head(objs), val |-> TRUE,
                    routes |-> [o \in Ents |-> W2.ent[o].currentPath],
                    alone |-> [o \in Ents |->
                                 createPath(actionGrid(W, g, "move", d), W.ent[o].cell, d, FALSE)],
                    gridBefore |-> g, gridAfter |-> g, dst |-> d])

PlanX == 3
PlanY == 2
PlanCells == (0..(PlanX - 1)) \X (0..(PlanY - 1))
FarCells == (0..5) \X (0..5)

\* an entity alone at cell src of a map with walkable grid w
PlanWorld(w, src) ==
  LET W == OrderWorld(w, src, src, src)
  IN  [W EXCEPT !.ent[2] = NoEntity, !.entities = <<1>>]

\* moveTo(dst, false, force) of an entity at src: on every walkable grid of a
\* small map, and from (0,0) to (5,5) on an obstacle-free map
MoveTo ==
  ret = NoRet /\
  \E w \in [PlanCells -> BOOLEAN] \cup {[c \in FarCells |-> TRUE]}, force \in BOOLEAN :
    \E src \in IF DOMAIN w = FarCells THEN {<<0, 0>>} ELSE DOMAIN w,
       dst \in IF DOMAIN w = FarCells THEN {<<5, 5>>} ELSE DOMAIN w :
      \E r \in moveTo(PlanWorld(w, src), PlanWorld(w, src).ent[1], dst, force) :
        Probe([op |-> "moveTo", e |-> 1, val |-> r.currentPath,
               w |-> w, src |-> src, dst |-> dst, force |-> force])

\* the grid after update() stamped the blocking objects of world W over the
\* tiles in B
StampedGrid(W, B) ==
  LET g1 == addToGrid(TileGrid(B), {W.ent[1].cell},
                      [id |-> W.ent[1].kind, value |-> StampValue, object |-> 1])
  IN  addToGrid(g1, {W.ent[2].cell},
                [id |-> W.ent[2].kind, value |-> StampValue, object |-> 2])

\* the weights action() hands to the finder for an order of the player's
\* entity 1 towards cell d, with entity 2 of either side on the map
ActionWeights ==
  ret = NoRet /\
  \E B \in SUBSET Cells, s1 \in Cells, s2 \in Cells, d \in Cells,
     atk \in BOOLEAN, foe \in BOOLEAN :
    /\ s1 # s2
    /\ LET W0 == OrderWorld(AllWalkable, s1, s1, s2)
           W == IF foe THEN W0 ELSE [W0 EXCEPT !.ent[2].player = ScenePlayer]
           g == StampedGrid(W, B)
       IN  Probe([op |-> "actionGrid", e |-> 1,
                  val |-> actionGrid(W, g, IF atk THEN "attack" ELSE "move", d),
                  attack |-> atk, dst |-> d, grid |-> g,
                  hostile |-> IF foe THEN {s2} ELSE {},
                  friendly |-> IF foe THEN {s1} ELSE {s1, s2}])

\* Walls (entity.ts): an entity here is a record of its data name, cell,
\* health and frame offset row; es is the set of the map's entities.
WallNames == {"SBAG", "CYCL", "BRIK", "BARB", "WOOD"}

\* map.getEntitiesFromCell(cell, finder) with the finder of getSimilarEntity
getEntitiesFromCell(es, cell, name) == {x \in es : x.cell = cell /\ x.name = name}

getSimilarEntity(es, r, offset, value) ==
  IF getEntitiesFromCell(es, <<r.cell[1] + offset[1], r.cell[2] + offset[2]>>, r.name) # {}
  THEN value ELSE 0

\* Variant of updateWall with the values of top and bottom exchanged.
updateWallSwapped(es, r) ==
  IF r.name \in WallNames
  THEN [r EXCEPT !.frameOffset = getSimilarEntity(es, r, <<0, -1>>, 4)
                                + getSimilarEntity(es, r, <<0, 1>>, 1)
                                + getSimilarEntity(es, r, <<-1, 0>>, 8)
                                + getSimilarEntity(es, r, <<1, 0>>, 2)]
  ELSE r

\* updateWall() of an entity with a sprite
updateWall(es, r) ==
  IF r.name \in WallNames
  THEN [r EXCEPT !.frameOffset = getSimilarEntity(es, r, <<0, -1>>, 1)     \* top
                                + getSimilarEntity(es, r, <<0, 1>>, 4)      \* bottom
                                + getSimilarEntity(es, r, <<-1, 0>>, 8)     \* left
                                + getSimilarEntity(es, r, <<1, 0>>, 2)]     \* right
  ELSE r

WallSide == 3
WallBoard == (1..WallSide) \X (1..WallSide)
WallChoices == {"none", "SBAG", "BRIK"}

\* updateWall() of the entity at cell c of a map with one entity of name
\* place[x] on every cell x whose name is not "none"
UpdateWall ==
  ret = NoRet /\
  \E place \in [WallBoard -> WallChoices], c \in WallBoard, row \in {0, 15} :
    /\ place[c] # "none"
    /\ LET es == {[name |-> place[x], cell |-> x, health |-> 1, frameOffset |-> 0] :
                   x \in {x \in WallBoard : place[x] # "none"}}
           r == [name |-> place[c], cell |-> c, health |-> 1, frameOffset |-> row]
       IN  Probe([op |-> "updateWall", e |-> NoEnt, val |-> updateWall(es, r).frameOffset,
                  before |-> r, after |-> updateWall(es, r), place |-> place])

\* Sound cues.  What happens to a cue: it plays, the fetch of the sound
\* fails, or the playback throws.
SfxOutcomes == {"played", "fetchFails", "playThrows"}

\* Variant of playArchiveSfx without the try/catch.
playArchiveSfxUncaught(outcome) ==
  [settled |-> IF outcome = "played" THEN "fulfilled" ELSE "rejected",
   played |-> outcome = "played", warned |-> FALSE]

\* engine.playArchiveSfx(): the promise it returns.  The fetch is awaited and
\* the playback called inside the try block; the catch logs a warning.
playArchiveSfx(outcome) ==
  [settled |-> "fulfilled", played |-> outcome = "played", warned |-> outcome # "played"]

\* GameMapBaseEntity.playSfx(name), an async method: the call returns the
\* promise of playArchiveSfx and throws nothing into its caller
playSfx(outcome) == [thrown |-> FALSE, promise |-> playArchiveSfx(outcome)]

\* A handler of entity 1 that requests a cue and does not await it: the world
\* when it returns.  Only die() has statements after the request (destroy(),
\* or for infantry the registration of the 'done' listener).
cueHandler(W, handler, target, dst, call) ==
  CASE handler = "attack" -> {[W EXCEPT !.ent[1] = attack(W.ent[1], target)]}
    [] handler = "move" -> {[W EXCEPT !.ent[1] = r] : r \in move(W, W.ent[1], dst)}
    [] handler = "setSelected" -> {[W EXCEPT !.ent[1] = setSelected(W.ent[1], TRUE)]}
    [] OTHER -> IF call.thrown THEN {dieEntity(W, 1, FALSE)[1]} ELSE {die(W, 1)[1]}

CueRequest ==
  ret = NoRet /\
  \E outcome \in SfxOutcomes, handler \in {"attack", "move", "setSelected", "die"},
     kind \in {"infantry", "plain"}, src \in Cells, other \in Cells, dst \in Cells :
    LET W0 == OrderWorld(AllWalkable, src, src, other)
        W == [W0 EXCEPT !.ent[1].kind = kind, !.ent[1].selected = FALSE]
    IN  \E W2 \in cueHandler(W, handler, 2, dst, playSfx(outcome)) :
          Probe([op |-> "cue", e |-> 1, val |-> playSfx(outcome).promise.settled = "fulfilled",
                 handler |-> handler, outcome |-> outcome, after |-> W2,
                 quiet |-> cueHandler(W, handler, 2, dst, playSfx("played"))])

\* Weapons.  A weapon slot of an entity: "none" when the properties name no
\* weapon, else the Weapon object, whose init() has succeeded or raised.
WeaponSlots == {"none", "initialised", "failed"}

\* lines 108-124 of init(): the Weapon object is assigned to the slot before
\* its init() is awaited inside a try block; the catch logs a warning.
initWeapon(named, initOk) ==
  IF ~named THEN "none" ELSE IF initOk THEN "initialised" ELSE "failed"

\* canAttack() of an entity with these two slots
canAttackWith(primaryWeapon, secondaryWeapon) ==
  primaryWeapon # "none" \/ secondaryWeapon # "none"

\* init() of entity 1, constructed at cell c with occupy pattern occ, on an
\* all-walkable map: the weapons, then the footprint
InitWeapons ==
  ret = NoRet /\
  \E c \in Cells, occ \in OccupyNames, kind \in {"infantry", "plain"},
     pNamed \in BOOLEAN, pOk \in BOOLEAN, sNamed \in BOOLEAN, sOk \in BOOLEAN :
    LET r == [NoEntity EXCEPT !.st = "live", !.kind = kind, !.cell = c,
                              !.position = pointFromCell(c), !.occupy = occ]
        primaryWeapon == initWeapon(pNamed, pOk)
        secondaryWeapon == initWeapon(sNamed, sOk)
    IN  Probe([op |-> "init", e |-> 1, val |-> canAttackWith(primaryWeapon, secondaryWeapon),
               r |-> r, primaryWeapon |-> primaryWeapon, secondaryWeapon |-> secondaryWeapon,
               walkable |-> toggleWalkableTiles(AllWalkable, r, FALSE)])

\* One tick of entity 1, idle at src or on its way to via with the rest of a
\* path, whose target (entity 2 at other) is alive, dying or destroyed.
\* untargeted is the same tick of the same entity without a target.
TickTarget ==
  ret = NoRet /\
  \E src \in Cells, via \in Cells, other \in Cells, path \in {<<>>} \cup {<<c>> : c \in Cells},
     action \in {"attack", "harvest"}, fate \in {"alive", "dying", "destroyed"} :
    /\ Abs(via[1] - src[1]) <= 1 /\ Abs(via[2] - src[2]) <= 1
    /\ LET W0 == OrderWorld(AllWalkable, src, via, other)
           W1 == [W0 EXCEPT !.ent[1].currentPath = path, !.ent[1].targetAction = action,
                            !.ent[2].dying = (fate = "dying"),
                            !.ent[2].destroyed = (fate = "destroyed")]
           W == [W1 EXCEPT !.ent[1].targetEntity = 2]
       IN  Probe([op |-> "tickTarget", e |-> 1, val |-> isDestroyed(W.ent[2]),
                  before |-> W.ent[1], target |-> W.ent[2],
                  after |-> tick(W, 1), untargeted |-> tick(W1, 1)])

\* One update of a dying entity 1 that still carries a pending move to via, a
\* path, a pending rotation or a target (orders reach a dying entity until it
\* is removed); its Die1 animation may end in this update.
UpdateDying ==
  ret = NoRet /\
  \E src \in Cells, via \in Cells, other \in Cells, path \in {<<>>} \cup {<<c>> : c \in Cells},
     target \in {NoEnt, 2}, targetDirection \in {-1, 3}, kind \in {"infantry", "plain"},
     listeners \in {0, 1} :
    /\ Abs(via[1] - src[1]) <= 1 /\ Abs(via[2] - src[2]) <= 1
    /\ LET W0 == OrderWorld(AllWalkable, src, via, other)
           W == [W0 EXCEPT !.ent[1].dying = TRUE, !.ent[1].kind = kind,
                           !.ent[1].currentPath = path,
                           !.ent[1].targetEntity = target,
                           !.ent[1].targetAction = IF target = NoEnt THEN "none" ELSE "attack",
                           !.ent[1].targetDirection = targetDirection,
                           !.ent[1].animation = IF kind = "infantry" THEN "Die1" ELSE "",
                           !.ent[1].doneListeners = listeners]
       IN  Probe([op |-> "updateDying", e |-> 1, val |-> TRUE, before |-> W.ent[1],
                  after |-> {W2.ent[1] : W2 \in onUpdate(W, 1)}])

\* Turret directions tried: on a bucket, just below and just above the
\* rounding border of a bucket, and at the ends of the range
TurretSamples ==
  {b * DIR_UNIT + off : b \in {0, 8, 16, 24, TurretDirections - 1},
                        off \in {0, DIR_UNIT \div 2 - 1, DIR_UNIT \div 2}}

\* One tick of entity 1, which has a turret, is idle at src or on its way to
\* via with the rest of a path, and has been ordered to attack entity 2 at
\* other.  untargeted is the same tick of the same entity without a target.
TickTurret ==
  ret = NoRet /\
  \E src \in Cells, via \in Cells, other \in Cells, path \in {<<>>} \cup {<<c>> : c \in Cells},
     lock \in BOOLEAN, td \in TurretSamples :
    /\ Abs(via[1] - src[1]) <= 1 /\ Abs(via[2] - src[2]) <= 1
    /\ LET W0 == OrderWorld(AllWalkable, src, via, other)
           W1 == [W0 EXCEPT !.ent[1].currentPath = path, !.ent[1].targetAction = "attack",
                            !.ent[1].hasTurret = TRUE, !.ent[1].noTurretLock = lock,
                            !.ent[1].turretDirection = td]
           W == [W1 EXCEPT !.ent[1].targetEntity = 2]
       IN  Probe([op |-> "tickTurret", e |-> 1,
                  val |-> RoundDirection(td) = getDirection32(other, src),
                  before |-> W.ent[1], target |-> W.ent[2],
                  after |-> tick(W, 1), untargeted |-> tick(W1, 1)])

\* One tick of entity 1 at src, idle or with a move to the next cell under way
\* and a path behind it, with a weapon of range sight and an attack or harvest
\* order on entity 2 at other; the entity has no turret, a locked one or a
\* free one that points at the target or away from it.  The map is an open
\* square of EngageSide cells a side.
EngageSide == 3
EngageCells == (0..(EngageSide - 1)) \X (0..(EngageSide - 1))

TickEngage ==
  ret = NoRet /\
  \E src \in EngageCells, other \in EngageCells, moving \in BOOLEAN, sight \in 0..MaxSight,
     action \in {"attack", "harvest"}, turret \in {"none", "locked", "free", "away"} :
    LET via == IF ~moving THEN src
               ELSE IF src[1] < EngageSide - 1 THEN <<src[1] + 1, src[2]>>
               ELSE <<src[1] - 1, src[2]>>
        w == [c \in EngageCells |-> TRUE]
        bearing == getDirection32(other, src)
        W0 == OrderWorld(w, src, via, other)
        W == [W0 EXCEPT !.ent[1].range = sight,
                        !.ent[1].currentPath = IF moving THEN <<other>> ELSE <<>>,
                        !.ent[1].targetEntity = 2, !.ent[1].targetAction = action,
                        !.ent[1].hasTurret = (turret # "none"),
                        !.ent[1].noTurretLock = (turret = "locked"),
                        !.ent[1].turretDirection =
                           IF turret = "away" THEN ((bearing + 16) % 32) * DIR_UNIT
                           ELSE bearing * DIR_UNIT]
    IN  Probe([op |-> "tickEngage", e |-> 1, val |-> turret # "away",
               before |-> W.ent[1], target |-> W.ent[2], after |-> tick(W, 1)])

\* Paths of up to two cells
ShortPaths == {<<>>} \cup {<<c>> : c \in Cells} \cup {<<c, d>> : c \in Cells, d \in Cells}

\* How far into its cell the probed entity stands: at the corner of the cell, or
\* half a cell (one tick's travel) along either axis
HalfCell == (CELL_SIZE * POS_UNIT) \div 2
ProbeOffsets == {<<0, 0>>, <<HalfCell, 0>>, <<0, HalfCell>>}

\* The action half of one tick (lines 225-269) of an entity at src that may
\* have an engaged action, a pending rotation, a move in progress and a path
TickAct ==
  ret = NoRet /\
  \E src \in Cells, via \in Cells \cup {NoPos}, path \in ShortPaths,
     action \in {"none", "attack", "harvest"}, rotates \in BOOLEAN,
     targetDirection \in {-1, 0, 2, Directions - 1},
     direction \in {0, 2 * DIR_UNIT - 1, 6 * DIR_UNIT}, off \in ProbeOffsets :
    LET r == [NoEntity EXCEPT !.st = "live", !.kind = "infantry",
                              !.health = MaxHealth, !.hitPoints = MaxHealth,
                              !.cell = src,
                              !.position = <<pointFromCell(src)[1] + off[1],
                                             pointFromCell(src)[2] + off[2]>>,
                              !.targetPosition = IF via = NoPos THEN NoPos ELSE pointFromCell(via),
                              !.currentPath = path, !.currentAction = action,
                              !.rotates = rotates, !.targetDirection = targetDirection,
                              !.direction = direction]
    IN  Probe([op |-> "tickAct", e |-> 1, val |-> tickAct(r).currentPath # path,
               before |-> r, after |-> tickAct(r)])

\* handleClick on an attackable entity: every selected entity is given the
\* attack order when some selected entity can attack.  r is the first selected
\* entity, with weapon slots p and s; others tells whether another selected
\* entity can attack.
handleClickAttack(r, p, s, others, hit, target) ==
  IF (canAttackWith(p, s) \/ others) /\ isAttackable(target, r)
  THEN attack(r, hit)
  ELSE r

\* What the tick of entity e dereferences: the properties record
\* (properties!.HasTurret, line 204) when it still has a target after line
\* 192, and the primary weapon (primaryWeapon!.fire, line 226) when the
\* action engaged is attack.
tickReadsProperties(W, e) ==
  LET r == W.ent[e]
  IN  r.targetEntity # NoEnt /\ ~isDestroyed(W.ent[r.targetEntity])
tickFires(W, e) == \E r \in tickTarget(W, e) : r.currentAction = "attack"

\* One tick of entity 1 at src after a click on entity 2 (an enemy at other)
\* while entity 1 is selected, alone or with another entity that can attack.
\* Entity 1 has a properties record or none, and with one, any weapon slots.
TickFire ==
  ret = NoRet /\
  \E src \in EngageCells, other \in EngageCells, properties \in BOOLEAN,
     primaryWeapon \in WeaponSlots, secondaryWeapon \in WeaponSlots, others \in BOOLEAN :
    /\ ~properties => (primaryWeapon = "none" /\ secondaryWeapon = "none")
    /\ LET W0 == OrderWorld([c \in EngageCells |-> TRUE], src, src, other)
           weaponSight == IF canAttackWith(primaryWeapon, secondaryWeapon) THEN WeaponRange
                          ELSE IF properties THEN getSight(W0.ent[1]) ELSE 0
           r == handleClickAttack([W0.ent[1] EXCEPT !.range = weaponSight],
                                  primaryWeapon, secondaryWeapon, others, 2, W0.ent[2])
           W == [W0 EXCEPT !.ent[1] = r]
       IN  Probe([op |-> "tickFire", e |-> 1, val |-> r.targetEntity = 2,
                  properties |-> properties, primaryWeapon |-> primaryWeapon,
                  secondaryWeapon |-> secondaryWeapon,
                  readsProperties |-> tickReadsProperties(W, 1),
                  fires |-> IF properties THEN tickFires(W, 1) ELSE FALSE])

NextPure ==
  \/ TickRange
  \/ TickFire
  \/ TickAct
  \/ TickEngage
  \/ TickTurret
  \/ UpdateDying
  \/ TickTarget
  \/ InitWeapons
  \/ CueRequest
  \/ UpdateWall
  \/ ActionWeights
  \/ MoveTo
  \/ ActionBoth
  \/ ActionOrder
  \/ MoveOrder
  \/ SetCell
  \/ SetPosition
  \/ GetNewDirection
  \/ GetDirection

SpecPure == Init /\ [][NextPure]_vars

\* chessboard distance of two cells
Chebyshev(a, b) == Max(Abs(a[1] - b[1]), Abs(a[2] - b[2]))

\* C13 (as claimed): a tick engages the target when the target cell is at
\* chessboard distance exactly the weapon range, and does not engage at that
\* distance plus one.
C13_EngageAtRange ==
  ret.op = "tick" =>
     /\ Chebyshev(ret.src, ret.dst) = ret.sight => ret.val
     /\ Chebyshev(ret.src, ret.dst) = ret.sight + 1 => ret.off

\* C14: getNewDirection returns a direction inside [0, dirs) for every
\* direction inside [0, dirs), every target bucket and every rotation speed,
\* and getDirection returns a bucket inside [0, 8).
C14_DirectionInRange ==
  /\ ret.op = "getNewDirection" => (0 <= ret.val /\ ret.val < ret.dirs * DIR_UNIT)
  /\ ret.op = "getDirection" => ret.val \in 0..7

\* a turn that passed the last bucket and wrapped
C14_Witness ==
  /\ ret.op = "getNewDirection"
  /\ ret.current + ret.speed > (ret.dirs - 1) * DIR_UNIT
  /\ ret.val < ret.current
  /\ ret.val >= 0

\* C15: after setCell and after setPosition, called with their default
\* arguments, the entity's cell is the cell of its truncated position.
C15_CellFollowsPosition ==
  (ret.op \in {"setCell", "setPosition"} /\ ~ret.val) =>
     ret.cell = cellFromPoint(ret.position)

\* C16: immediately after an attack order on an entity (the only step that
\* gives an entity a new target), no waypoint of its previous path is queued
\* and its move in progress and pending rotation are cleared.
C16_OrderDiscardsPath ==
  [][\A e \in Ents :
       (ent'[e].targetEntity # NoEnt /\ ent'[e].targetEntity # ent[e].targetEntity) =>
          /\ ent'[e].currentPath = <<>>
          /\ ent'[e].targetPosition = NoPos
          /\ ent'[e].targetDirection = -1]_vars

\* C17: when the planner returns an empty route for a move order, moveTo
\* returns false, the entity is left with an empty path and no move in
\* progress, and its position and cell are the same after every later tick;
\* action() sets no target on an object whose route is empty.
C17_EmptyRouteLeavesIdle ==
  /\ (ret.op = "move" /\ ~ret.val) =>
        /\ ret.after.currentPath = <<>>
        /\ ret.after.targetPosition = NoPos
        /\ ret.later = {<<pointFromCell(ret.src), ret.src>>}
  /\ (ret.op = "action" /\ ~ret.val) =>
        /\ ret.after.currentPath = <<>>
        /\ ret.after.targetEntity = NoEnt

\* an entity on its way to a neighbouring cell is ordered to a cell it cannot
\* reach
C17_Witness ==
  /\ ret.op = "move" /\ ~ret.val
  /\ ret.via # ret.src /\ ret.dst # ret.src
  /\ ret.later = {<<pointFromCell(ret.src), ret.src>>}

C20_FriendlyKeptBlocked ==
  (ret.op = "actionGrid" /\ ret.attack) =>
     \A c \in ret.friendly \ {ret.dst} : ret.val[c] = (ret.grid[c].value = 0)

\* C22: the variant index of a wall after updateWall is 1 top + 4 bottom +
\* 8 left + 2 right, each term counted exactly when an entity of the same name
\* stands on that neighbour cell; it lies in 0..15, walls at (2,2) and (2,3)
\* give 4 and 1, and nothing but the frame offset changes.
C22_WallIndex ==
  ret.op = "updateWall" =>
     LET c == ret.before.cell
         has(x) == IF x \in WallBoard /\ ret.place[x] = ret.before.name THEN 1 ELSE 0
     IN  /\ ret.val = has(<<c[1], c[2] - 1>>) + 4 * has(<<c[1], c[2] + 1>>)
                       + 8 * has(<<c[1] - 1, c[2]>>) + 2 * has(<<c[1] + 1, c[2]>>)
         /\ ret.val \in 0..15
         /\ ret.after = [ret.before EXCEPT !.frameOffset = ret.val]
         /\ (\A x \in WallBoard :
                ret.place[x] = IF x \in {<<2, 2>>, <<2, 3>>} THEN ret.before.name ELSE "none")
               => ret.val = IF c = <<2, 2>> THEN 4 ELSE 1

\* the lower of two walls at (2,2) and (2,3)
C22_Witness ==
  /\ ret.op = "updateWall"
  /\ \A x \in WallBoard : ret.place[x] = (IF x \in {<<2, 2>>, <<2, 3>>} THEN "BRIK" ELSE "none")
  /\ ret.before.cell = <<2, 3>>
  /\ ret.val = 1

\* C24: whatever happens to a sound cue, playArchiveSfx completes without
\* rejecting, and the handler that requested the cue (move, attack,
\* setSelected, die) ends in a state it also ends in when the cue plays.
C24_CueFailureContained ==
  ret.op = "cue" => (ret.val /\ ret.after \in ret.quiet)

\* the cue of a dying entity could not be fetched, and the entity was destroyed
C24_Witness ==
  /\ ret.op = "cue" /\ ret.handler = "die" /\ ret.outcome = "fetchFails"
  /\ ret.after.ent[1].destroyed

\* C25: when the init of an entity's weapon raises, init() still registers the
\* footprint, and with no successfully initialised weapon canAttack() is false.
C25_FailedWeaponDisabled ==
  ret.op = "init" =>
    /\ \A c \in Cells : ret.walkable[c] = (c \notin Footprint(ret.r))
    /\ ("initialised" \notin {ret.primaryWeapon, ret.secondaryWeapon} => ~ret.val)

\* C26: in a tick of a non-dying entity a target that is destroyed or dying at
\* the start of the tick is cleared first: the tick does what the tick of the
\* same entity without a target does, and neither fire nor harvest is invoked.
C26_DestroyedTargetDropped ==
  (ret.op = "tickTarget" /\ ret.val) =>
    /\ ret.after = ret.untargeted
    /\ \A r \in ret.after : r.targetEntity = NoEnt /\ r.currentAction = "none"

\* a dying target within range of an attacker that the tick left untouched
C26_Witness ==
  /\ ret.op = "tickTarget" /\ ret.val /\ ret.target.dying
  /\ ret.before.targetAction = "attack"
  /\ Chebyshev(ret.before.cell, ret.target.cell) <= ret.before.range
  /\ \E r \in ret.after : r.currentAction = "none" /\ r.direction = ret.before.direction

\* C27: an update of a dying entity runs none of the tick logic: position,
\* cell, direction, path, target, target action, pending move and pending
\* rotation are after the update what they were before it.
C27_DyingNotTicked ==
  ret.op = "updateDying" =>
    \A r \in ret.after :
      /\ r.position = ret.before.position /\ r.cell = ret.before.cell
      /\ r.direction = ret.before.direction
      /\ r.currentPath = ret.before.currentPath
      /\ r.targetEntity = ret.before.targetEntity
      /\ r.targetAction = ret.before.targetAction
      /\ r.targetPosition = ret.before.targetPosition
      /\ r.targetDirection = ret.before.targetDirection
      /\ r.currentAction = ret.before.currentAction

\* a dying entity with a pending move, a path and a target in range was updated
\* and removed by the end of its animation
C27_Witness ==
  /\ ret.op = "updateDying"
  /\ ret.before.targetPosition # NoPos /\ ret.before.currentPath # <<>>
  /\ ret.before.targetEntity = 2
  /\ \E r \in ret.after : r.destroyed
  /\ \E r \in ret.after : ~r.destroyed

\* C29: in a tick of an entity with a free-rotating turret and a target whose
\* rounded turret direction differs from the 32-bucket bearing to the target,
\* the turret turns towards the bearing and nothing else of the target logic
\* happens: the action stays unset (no engagement, no fire), no path is
\* requested, and the rest of the tick is that of the entity without a target.
C29_TurretTurnsFirst ==
  (/\ ret.op = "tickTurret" /\ ~ret.val
   /\ ret.before.hasTurret /\ ~ret.before.noTurretLock) =>
    LET bearing == getDirection32(ret.target.cell, ret.before.cell)
        turned == getNewDirection(ret.before.turretDirection, bearing, 4, TurretDirections)
    IN  /\ ret.after = {[r EXCEPT !.targetEntity = 2, !.turretDirection = turned] :
                           r \in ret.untargeted}
        /\ \A r \in ret.after :
              /\ r.currentAction = "none"
              /\ r.turretDirection # ret.before.turretDirection
              /\ Len(r.currentPath) <= Len(ret.before.currentPath)

\* an idle entity whose turret points away from a target standing within range
C29_Witness ==
  /\ ret.op = "tickTurret" /\ ~ret.val
  /\ ret.before.hasTurret /\ ~ret.before.noTurretLock
  /\ ret.before.cell # ret.target.cell
  /\ Chebyshev(ret.before.cell, ret.target.cell) <= ret.before.range
  /\ ret.before.currentPath = <<>> /\ ret.before.targetPosition = NoPos
  /\ \A r \in ret.after : r.currentAction = "none" /\ r.direction = ret.before.direction

\* Math.floor of the distance between two cells
FloorDistance(a, b) ==
  LET d2 == (a[1] - b[1]) * (a[1] - b[1]) + (a[2] - b[2]) * (a[2] - b[2])
  IN  CHOOSE n \in 0..(2 * (MaxSight + 1)) : n * n <= d2 /\ d2 < (n + 1) * (n + 1)

\* the tick of the probed entity engages: its turret, when free, points at the
\* target, and the target is within the range of the ordered action
Engages ==
  /\ ret.val
  /\ FloorDistance(ret.target.cell, ret.before.cell)
        <= (IF ret.before.targetAction = "harvest" THEN 0 ELSE ret.before.range)

\* C30: in a tick that engages the target the pending move and the path are
\* discarded, position and cell are as before, the body direction is the
\* bearing to the target (the entity cannot rotate), and the current action is
\* the target action; in a tick that does not engage the current action is unset.
C30_EngagedStandsStill ==
  ret.op = "tickEngage" =>
    \A r \in ret.after :
      IF Engages
      THEN /\ r.targetPosition = NoPos /\ r.currentPath = <<>>
           /\ r.position = ret.before.position /\ r.cell = ret.before.cell
           /\ r.direction = getDirection(ret.target.cell, ret.before.cell) * DIR_UNIT
           /\ r.currentAction = ret.before.targetAction
      ELSE r.currentAction = "none"

\* an entity under way, with a path behind its move, engaged a target that
\* stands diagonally from it
C30_Witness ==
  /\ ret.op = "tickEngage" /\ Engages
  /\ ret.before.targetPosition # NoPos /\ ret.before.currentPath # <<>>
  /\ ret.before.targetAction = "attack"
  /\ ret.target.cell[1] # ret.before.cell[1] /\ ret.target.cell[2] # ret.before.cell[2]
  /\ \A r \in ret.after : r.currentAction = "attack" /\ r.direction # ret.before.direction

\* C31: the radius of the range check is the weapon's range for an attack
\* order and the entity's innate sight for a harvest order: a tick whose turret
\* condition allows engagement engages exactly when the floored distance
\* between the cells is at most that radius.
C31_HarvestRadiusIsSight ==
  (ret.op = "tickEngage" /\ ret.val) =>
    LET radius == IF ret.before.targetAction = "attack" THEN ret.before.range
                  ELSE getSight(ret.before)
        within == FloorDistance(ret.target.cell, ret.before.cell) <= radius
    IN  \A r \in ret.after : (r.currentAction = ret.before.targetAction) = within

\* C32: the action branches of the tick exclude each other in order: with a
\* pending rotation the position is unchanged and the path and the move in
\* progress are untouched; with a move in progress the path is untouched; the
\* path changes only by a pop of its head, which becomes the destination, and
\* only when no action is engaged, no rotation is pending and no move is in
\* progress; nothing else sets a destination.
C32_BranchesExclusive ==
  ret.op = "tickAct" =>
    LET r == ret.before
        q == ret.after
        engaged == r.currentAction \in {"attack", "harvest"}
        popped == /\ r.currentPath # <<>>
                  /\ q.currentPath = Tail(r.currentPath)
                  /\ q.targetPosition = pointFromCell(Head(r.currentPath))
    IN  /\ r.targetDirection # -1 =>
              (q.position = r.position /\ q.cell = r.cell /\ q.currentPath = r.currentPath
               /\ q.targetPosition = r.targetPosition)
        /\ r.targetPosition # NoPos => q.currentPath = r.currentPath
        /\ engaged => q = r
        /\ q.currentPath # r.currentPath =>
              (popped /\ ~engaged /\ r.targetDirection = -1 /\ r.targetPosition = NoPos)
        /\ (q.targetPosition # NoPos /\ q.targetPosition # r.targetPosition) => popped
        /\ (q.position # r.position) =>
              (~engaged /\ r.targetDirection = -1 /\ r.targetPosition # NoPos)

\* an idle entity took the first of two waypoints and kept the second
C32_Witness ==
  /\ ret.op = "tickAct" /\ ret.val
  /\ Len(ret.before.currentPath) = 2
  /\ ret.before.currentPath[1] # ret.before.currentPath[2]
  /\ ret.after.currentPath = <<ret.before.currentPath[2]>>
  /\ ret.after.targetPosition = pointFromCell(ret.before.currentPath[1])

\* C33: in a moving tick (no action engaged, no rotation pending, a move in
\* progress) the path is kept; when the remaining distance is at most one
\* tick's travel the position becomes the destination, the cell the
\* destination's cell and the move is cleared; otherwise the position changes
\* by the velocity and the cell is recomputed from it.
C33_ArrivalSnaps ==
  (/\ ret.op = "tickAct"
   /\ ret.before.currentAction = "none"
   /\ ret.before.targetDirection = -1
   /\ ret.before.targetPosition # NoPos) =>
    LET r == ret.before
        q == ret.after
        mv == getMovementVelocity(r)
    IN  /\ q.currentPath = r.currentPath
        /\ IF mv[1]
           THEN /\ q.position = <<r.position[1] - mv[2][1], r.position[2] - mv[2][2]>>
                /\ q.cell = cellFromPoint(q.position)
                /\ q.targetPosition = r.targetPosition
           ELSE /\ q.position = r.targetPosition
                /\ q.cell = cellFromPoint(r.targetPosition)
                /\ q.targetPosition = NoPos

\* C35: whenever a tick reads the turret flags of the properties record the
\* entity has a properties record, and whenever it calls the primary weapon's
\* fire routine the entity has a primary weapon.
C35_FireHasWeapon ==
  ret.op = "tickFire" =>
    /\ ret.readsProperties => ret.properties
    /\ ret.fires => ret.primaryWeapon # "none"

\* C37: every initialised entity has 0 <= health <= hitPoints, and an entity
\* that is not dying has health above zero.
C37_HealthInRange ==
  \A e \in Ents :
    ent[e].st # "none" =>
      /\ 0 <= ent[e].health
      /\ ent[e].health <= ent[e].hitPoints
      /\ ~ent[e].dying => ent[e].health > 0

----------------------------------------------------------------------------
(* The approach scenario: the player's infantry with weapon range ChaseRange   *)
(* and a hostile infantry ChaseDistance cells away, at the two ends of a strip *)
(* of cells or of a diagonal corridor.  The attack order comes from a click on *)
(* the target; the game loop ticks both entities; the target may die.          *)

ChaseRange == 3
ChaseDistance == 10

StripMap == [c \in (0..ChaseDistance) \X {0} |-> TRUE]
DiagonalMap ==
  [c \in {c \in (0..ChaseDistance) \X (0..ChaseDistance) : Abs(c[1] - c[2]) <= 1} |-> TRUE]

\* <<map, attacker cell, target cell>>
ChasePlacements ==
  {<<StripMap, <<a, 0>>, <<ChaseDistance - a, 0>>>> : a \in {0, ChaseDistance}}
  \cup {<<DiagonalMap, <<a, a>>, <<ChaseDistance - a, ChaseDistance - a>>>> :
          a \in {0, ChaseDistance}}

InitChase ==
  \E pl \in ChasePlacements :
    LET W == OrderWorld(pl[1], pl[2], pl[2], pl[3])
    IN  /\ ent = [W.ent EXCEPT ![1].range = ChaseRange]
        /\ walkable = W.walkable
        /\ entities = W.entities
        /\ ret = NoRet
        /\ ghost = InitGhost
        /\ snapshot = InitSnapshot
        /\ baseGrid = NoGrid /\ grid = NoGrid /\ previousGrid = NoGrid
        /\ mapst = MapIdle

NextChase ==
  \/ ClickEntity(2) /\ NoSnap
  \/ OnUpdate(1) /\ NoSnap
  \/ OnUpdate(2) /\ NoSnap
  \/ Die(2, FALSE) /\ NoSnap

\* the game loop updates the attacker again and again
SpecChase == InitChase /\ [][NextChase]_vars /\ WF_vars(OnUpdate(1) /\ NoSnap)

\* C21: an entity ordered to attack a living target ChaseDistance cells away
\* never fires while the target is more than ChaseRange cells away,
\* eventually fires unless the target dies first, and while it fires and the
\* target stays alive its position and cell no longer change.
C21_ApproachThenFire ==
  /\ [](ent[1].currentAction = "attack" =>
          Chebyshev(ent[1].cell, ent[2].cell) <= ChaseRange)
  /\ [][(ent[1].currentAction = "attack" /\ ~isDestroyed(ent[2]) /\ ~isDestroyed(ent'[2]))
          => (ent'[1].position = ent[1].position /\ ent'[1].cell = ent[1].cell)]_vars
  /\ (ent[1].targetEntity = 2 ~> (ent[1].currentAction = "attack" \/ isDestroyed(ent[2])))

\* the attacker has walked up to the living target and fires
C21_Witness ==
  /\ ent[1].currentAction = "attack"
  /\ ~isDestroyed(ent[2])
  /\ Chebyshev(ent[1].cell, ent[2].cell) \in 1..ChaseRange
  /\ ent[1].position # pointFromCell(ent[1].cell)

----------------------------------------------------------------------------
(* The turning scenario: entity 1 is updated again and again and receives no
   order.  Either its hull has a rotation order pending towards the waypoint
   it has just taken (a neighbour of its cell, one per bucket of 8), from any
   start direction; or it has a free turret at any direction and has been
   ordered to attack entity 2, which stands still on the ring TurnRadius cells
   away, straight or one cell off along an axis (buckets 31, 0, 1, 7, 8, 9,
   15, 16, 17, 23, 24, 25 of 32), and within range. *)

TurnRadius == 5
TurnCentre == <<TurnRadius, TurnRadius>>
TurnRing ==
  {c \in (0..(2 * TurnRadius)) \X (0..(2 * TurnRadius)) :
     /\ Chebyshev(c, TurnCentre) = TurnRadius
     /\ \E i \in 1..2 : Abs(c[i] - TurnRadius) <= 1}
HullCentre == <<1, 1>>

HullTurnWorld(via, direction) ==
  LET W == OrderWorld([c \in EngageCells |-> TRUE], HullCentre, via, HullCentre)
  IN  [W EXCEPT !.ent[1].rotates = TRUE,
                !.ent[1].direction = direction,
                !.ent[1].targetDirection =
                   getDirection(pointFromCell(via), pointFromCell(HullCentre)),
                !.entities = <<1>>,
                !.ent[2] = NoEntity]

TurretTurnWorld(other, turretDirection) ==
  LET W == OrderWorld([c \in EngageCells |-> TRUE], TurnCentre, TurnCentre, other)
  IN  [W EXCEPT !.ent[1].range = 2 * TurnRadius,
                !.ent[1].targetEntity = 2, !.ent[1].targetAction = "attack",
                !.ent[1].hasTurret = TRUE,
                !.ent[1].turretDirection = turretDirection]

\* The turret turns by 4 * getRotationSpeed() / TURNSPEED_DIVIDER / 10 of a
\* bucket per tick: from a whole bucket it only ever stands on multiples of
\* that step
TurretStarts ==
  {d \in 0..(TurretDirections * DIR_UNIT - 1) : d % (4 * getRotationSpeed(NoEntity)) = 0}

InitTurn ==
  /\ ent = EmptyWorld.ent
  /\ walkable = [c \in EngageCells |-> TRUE]
  /\ entities = <<>>
  /\ ret = NoRet
  /\ ghost = InitGhost
  /\ snapshot = InitSnapshot
  /\ baseGrid = NoGrid /\ grid = NoGrid /\ previousGrid = NoGrid
  /\ mapst = MapIdle

\* the level places the entity, which has taken its waypoint or its target
PlaceTurning ==
  /\ entities = <<>>
  /\ \E W \in {HullTurnWorld(via, d) :
                  via \in EngageCells \ {HullCentre}, d \in 0..(Directions * DIR_UNIT - 1)}
              \cup {TurretTurnWorld(other, d) : other \in TurnRing, d \in TurretStarts} :
       /\ ent' = W.ent
       /\ walkable' = W.walkable
       /\ entities' = W.entities
  /\ UNCHANGED <<ret, ghost, snapshot, gridVars, mapst>>

NextTurn ==
  \/ PlaceTurning
  \/ OnUpdate(1) /\ NoSnap

\* the game loop updates the entity again and again
SpecTurn == InitTurn /\ [][NextTurn]_vars /\ WF_vars(OnUpdate(1) /\ NoSnap)

----------------------------------------------------------------------------
(* Loading step by step: load() is async and suspends at await fog.load() and
   at the await Sprite.preload of every terrain tile; update() has no guard of
   its own and may be called by the frame callback at any of these points.
   The level has no objects. *)

\* the tiles in the order of the loops of load(): x outside, y inside
TileOrder == [i \in 1..(TilesX * TilesY) |-> <<(i - 1) \div TilesY, (i - 1) % TilesY>>]

TileEntry == [id |-> "tile", value |-> StampValue, object |-> NoEnt]

\* load() up to await this.fog.load(): the grids are allocated
LoadBegin ==
  /\ mapst.at = "new"
  /\ \E tiles \in SUBSET Cells :
       mapst' = [mapst EXCEPT !.at = "tiles",
                              !.todo = [i \in 1..Len(TileOrder) |->
                                          [cell |-> TileOrder[i],
                                           passable |-> TileOrder[i] \notin tiles]]]
  /\ grid' = EmptyGrid
  /\ previousGrid' = EmptyGrid
  /\ UNCHANGED <<ent, walkable, entities, ret, ghost, snapshot, baseGrid>>

\* one round of the tile loop, from the return of await Sprite.preload to the
\* next await
LoadTile ==
  /\ mapst.at = "tiles"
  /\ mapst.todo # <<>>
  /\ LET i == Head(mapst.todo)
     IN  /\ grid' = IF ~i.passable THEN addToGrid(grid, {i.cell}, TileEntry) ELSE grid
         /\ mapst' = [mapst EXCEPT !.todo = Tail(@),
                                   !.added = IF ~i.passable THEN @ \cup {i.cell} ELSE @]
  /\ UNCHANGED <<ent, walkable, entities, ret, ghost, snapshot, baseGrid, previousGrid>>

\* the end of load(): no terrain objects, overlays or entities to add
LoadEnd ==
  /\ mapst.at = "tiles"
  /\ mapst.todo = <<>>
  /\ mapst' = [mapst EXCEPT !.loaded = TRUE, !.at = "done"]
  /\ baseGrid' = copy(grid)
  /\ UNCHANGED <<ent, walkable, entities, ret, ghost, snapshot, grid, previousGrid>>

\* update() of a map without objects, whenever the frame callback runs
UpdateAnyTime ==
  /\ LET M == updateBegin(MapGrids)
     IN  /\ baseGrid' = M.baseGrid /\ grid' = M.grid /\ previousGrid' = M.previousGrid
  /\ ret' = [op |-> "update", e |-> NoEnt, val |-> mapst.loaded]
  /\ UNCHANGED <<ent, walkable, entities, ghost, snapshot, mapst>>

NextLoad ==
  \/ LoadBegin
  \/ LoadTile
  \/ LoadEnd
  \/ UpdateAnyTime

SpecLoad == InitMap /\ [][NextLoad]_vars

\* C39: from the allocation of the grids on, the current grid is never the
\* empty array, and the base grid captured at the end of load() has the entry
\* of every non-passable terrain tile that load() added.
C39_LoadSurvivesUpdate ==
  /\ mapst.at # "new" => grid # NoGrid
  /\ mapst.at = "done" =>
       \A c \in mapst.added : c \in DOMAIN baseGrid /\ baseGrid[c] = TileEntry

----------------------------------------------------------------------------
(* The route scenario: entity 1 stands on an open map with a path of one or
   two steps to neighbouring cells, has no target and receives no order; the
   game loop updates it again and again.  Its type has the Speed of the
   configuration or none (getMovementSpeed() is then 0), and it can rotate or
   not.  ghost.goal remembers the last cell of the path. *)

Neighbours(c) == {d \in EngageCells : Chebyshev(c, d) = 1}
Routes(src) ==
  {<<a>> : a \in Neighbours(src)}
    \cup UNION {{<<a, b>> : b \in Neighbours(a) \ {src}} : a \in Neighbours(src)}

InitRoute ==
  /\ ent = EmptyWorld.ent
  /\ walkable = [c \in EngageCells |-> TRUE]
  /\ entities = <<>>
  /\ ret = NoRet
  /\ ghost = InitGhost
  /\ snapshot = InitSnapshot
  /\ baseGrid = NoGrid /\ grid = NoGrid /\ previousGrid = NoGrid
  /\ mapst = MapIdle

\* the entity has been given its path (moveTo) and is left alone
PlaceRoute ==
  /\ entities = <<>>
  /\ \E src \in EngageCells, rotates \in BOOLEAN, speed \in {0, Speed} :
       \E path \in Routes(src) :
         LET W == OrderWorld(walkable, src, src, src)
         IN  /\ ent' = [W.ent EXCEPT ![1].currentPath = path,
                                     ![1].rotates = rotates,
                                     ![1].speed = speed,
                                     ![2] = NoEntity]
             /\ entities' = <<1>>
             /\ ghost' = [ghost EXCEPT !.goal = path[Len(path)]]
  /\ UNCHANGED <<walkable, ret, snapshot, gridVars, mapst>>

NextRoute ==
  \/ PlaceRoute
  \/ OnUpdate(1) /\ NoSnap

\* the game loop updates the entity again and again
SpecRoute == InitRoute /\ [][NextRoute]_vars /\ WF_vars(OnUpdate(1) /\ NoSnap)

\* C38: an entity with a path, no target and no further order eventually is
\* idle (no path, no move in progress, no rotation pending) in the last cell
\* of the path.
C38_RouteEnds ==
  (ghost.goal # NoPos)
    ~> (/\ ent[1].currentPath = <<>>
        /\ ent[1].targetPosition = NoPos
        /\ ent[1].targetDirection = -1
        /\ ent[1].cell = ghost.goal)

====
